---- MODULE Spec2Model ----
(***************************************************************************)
(* dadit: JSON Patch operations applied to a YAML document as byte edits.  *)
(*                                                                         *)
(* Text is a sequence of one-character strings; a byte offset is an index  *)
(* into it counted from 0.  A JSON value is a pair <<tag, payload>>:       *)
(*   <<"null", 0>>  <<"bool", TRUE>>  <<"int", 7>>  <<"str", chars>>       *)
(*   <<"list", <<v1, ..., vn>>>>  <<"map", << <<key1, v1>>, ... >>>>       *)
(* with mapping keys character sequences, in insertion order.              *)
(***************************************************************************)
EXTENDS Integers, Sequences, FiniteSets, TLC

NL == "\n"
DQ == "\""
SP == " "

default_indentation == <<SP, SP>>

\* ------------------------------------------------------------------ text

Min(a, b) == IF a < b THEN a ELSE b
Max(a, b) == IF a > b THEN a ELSE b

\* text[from:to] of Python, offsets counted from 0, clamped like a slice.
Slice(t, from, to) ==
  LET f == Max(0, Min(from, Len(t)))
      e == Max(f, Min(to, Len(t)))
  IN SubSeq(t, f + 1, e)

Contains(t, c) == \E i \in 1..Len(t) : t[i] = c

EndsWith(t, c) == Len(t) > 0 /\ t[Len(t)] = c

\* str.startswith
StartsWith(t, p) == Len(t) >= Len(p) /\ SubSeq(t, 1, Len(p)) = p

\* Index of the first occurrence of c in t at or after i (1-based), 0 if none.
RECURSIVE IndexFrom(_, _, _)
IndexFrom(t, c, i) ==
  IF i > Len(t) THEN 0
  ELSE IF t[i] = c THEN i
  ELSE IndexFrom(t, c, i + 1)

\* str.split(sep) for a one-character separator.
RECURSIVE Split(_, _)
Split(t, c) ==
  LET i == IndexFrom(t, c, 1)
  IN IF i = 0 THEN <<t>>
     ELSE <<SubSeq(t, 1, i - 1)>> \o Split(SubSeq(t, i + 1, Len(t)), c)

\* str.splitlines(): the lines without their terminators; a final newline
\* opens no further line and the empty text has no line.
splitlines(t) ==
  IF Len(t) = 0 THEN <<>>
  ELSE IF EndsWith(t, NL) THEN Split(SubSeq(t, 1, Len(t) - 1), NL)
  ELSE Split(t, NL)

\* sep.join(parts)
RECURSIVE Join(_, _)
Join(parts, sep) ==
  IF Len(parts) = 0 THEN <<>>
  ELSE IF Len(parts) = 1 THEN parts[1]
  ELSE parts[1] \o sep \o Join(Tail(parts), sep)

Digit(n) == <<"0", "1", "2", "3", "4", "5", "6", "7", "8", "9">>[n + 1]

IsDigit(c) == c \in {"0", "1", "2", "3", "4", "5", "6", "7", "8", "9"}

DigitValue(c) == CHOOSE n \in 0..9 : Digit(n) = c

RECURSIVE NatText(_)
NatText(n) == IF n < 10 THEN <<Digit(n)>> ELSE NatText(n \div 10) \o <<Digit(n % 10)>>

\* str(n) of an integer
IntText(n) == IF n < 0 THEN <<"-">> \o NatText(0 - n) ELSE NatText(n)

RECURSIVE NatValue(_)
NatValue(t) ==
  IF Len(t) = 0 THEN 0
  ELSE 10 * NatValue(SubSeq(t, 1, Len(t) - 1)) + DigitValue(t[Len(t)])

IsNatText(t) == Len(t) > 0 /\ \A i \in 1..Len(t) : IsDigit(t[i])

\* The texts Python's int() accepts (decimal digits with an optional sign).
IsIntText(t) ==
  \/ IsNatText(t)
  \/ Len(t) > 1 /\ t[1] \in {"-", "+"} /\ IsNatText(Tail(t))

\* int(t); defined where IsIntText(t).
IntValue(t) ==
  IF t[1] = "-" THEN 0 - NatValue(Tail(t))
  ELSE IF t[1] = "+" THEN NatValue(Tail(t))
  ELSE NatValue(t)

\* ----------------------------------------------------------- JSON values

JNull == <<"null", 0>>
JBool(b) == <<"bool", b>>
JInt(n) == <<"int", n>>
JStr(t) == <<"str", t>>
JList(items) == <<"list", items>>
JMap(pairs) == <<"map", pairs>>

IsStr(v) == v[1] = "str"
IsList(v) == v[1] = "list"
IsMap(v) == v[1] = "map"

HasKey(pairs, key) == \E i \in 1..Len(pairs) : pairs[i][1] = key

\* dict[key]: Python keeps one entry per key, the last one written.
Lookup(pairs, key) ==
  pairs[CHOOSE i \in 1..Len(pairs) :
          /\ pairs[i][1] = key
          /\ \A j \in (i + 1)..Len(pairs) : pairs[j][1] # key][2]

\* Equality of JSON values as Python compares them: lists in order,
\* mappings regardless of insertion order.
RECURSIVE JsonEq(_, _)
JsonEq(a, b) ==
  IF a[1] # b[1] THEN FALSE
  ELSE IF IsList(a) THEN
    /\ Len(a[2]) = Len(b[2])
    /\ \A i \in 1..Len(a[2]) : JsonEq(a[2][i], b[2][i])
  ELSE IF IsMap(a) THEN
    /\ \A i \in 1..Len(a[2]) : HasKey(b[2], a[2][i][1])
    /\ \A i \in 1..Len(b[2]) : HasKey(a[2], b[2][i][1])
    /\ \A i \in 1..Len(a[2]) :
         JsonEq(Lookup(a[2], a[2][i][1]), Lookup(b[2], a[2][i][1]))
  ELSE a[2] = b[2]

\* The value v handed on to the rest of a computation.
With(v, rest(_)) == rest(v)

\* ------------------------------------------------------------ serializer

RECURSIVE escape_json(_)
escape_json(t) ==
  IF Len(t) = 0 THEN <<>>
  ELSE (IF t[1] = DQ THEN <<"\\", DQ>>
        ELSE IF t[1] = "\\" THEN <<"\\", "\\">>
        ELSE IF t[1] = NL THEN <<"\\", "n">>
        ELSE <<t[1]>>) \o escape_json(Tail(t))

RECURSIVE json_dumps(_)
RECURSIVE json_dumps_items(_)
RECURSIVE json_dumps_pairs(_)
\* json.dumps(value): the JSON lexeme, strings double-quoted and escaped.
json_dumps(value) ==
  CASE value[1] = "null" -> <<"n", "u", "l", "l">>
    [] value[1] = "bool" -> IF value[2] THEN <<"t", "r", "u", "e">>
                            ELSE <<"f", "a", "l", "s", "e">>
    [] value[1] = "int" -> IntText(value[2])
    [] value[1] = "str" -> <<DQ>> \o escape_json(value[2]) \o <<DQ>>
    [] value[1] = "list" -> <<"[">> \o json_dumps_items(value[2]) \o <<"]">>
    [] value[1] = "map" -> <<"{">> \o json_dumps_pairs(value[2]) \o <<"}">>

json_dumps_items(items) ==
  IF Len(items) = 0 THEN <<>>
  ELSE IF Len(items) = 1 THEN json_dumps(items[1])
  ELSE json_dumps(items[1]) \o <<",", SP>> \o json_dumps_items(Tail(items))

json_dumps_pairs(pairs) ==
  LET one == json_dumps(JStr(pairs[1][1])) \o <<":", SP>> \o json_dumps(pairs[1][2])
  IN IF Len(pairs) = 0 THEN <<>>
     ELSE IF Len(pairs) = 1 THEN one
     ELSE one \o <<",", SP>> \o json_dumps_pairs(Tail(pairs))

stringify_flow(value) == json_dumps(value)

RECURSIVE PrefixLines(_, _)
PrefixLines(lines, indentation) ==
  IF Len(lines) = 0 THEN <<>>
  ELSE <<indentation \o lines[1]>> \o PrefixLines(Tail(lines), indentation)

\* Every line prefixed; the lines are re-joined, so a final newline is dropped.
indent(text, indentation) == Join(PrefixLines(splitlines(text), indentation), <<NL>>)

\* Every line but the first prefixed.
indent_block(value, indentation) == Join(splitlines(value), <<NL>> \o indentation)

RECURSIVE stringify_block(_)
RECURSIVE stringify_block_sequence_item(_)
RECURSIVE stringify_block_mapping_pair(_, _)
RECURSIVE stringify_items(_)
RECURSIVE stringify_pairs(_)

stringify_items(items) ==
  IF Len(items) = 0 THEN <<>>
  ELSE <<stringify_block_sequence_item(items[1])>> \o stringify_items(Tail(items))

stringify_pairs(pairs) ==
  IF Len(pairs) = 0 THEN <<>>
  ELSE <<stringify_block_mapping_pair(pairs[1][1], pairs[1][2])>>
         \o stringify_pairs(Tail(pairs))

stringify_block(value) ==
  IF IsList(value) THEN Join(stringify_items(value[2]), <<NL>>)
  ELSE IF IsMap(value) THEN Join(stringify_pairs(value[2]), <<NL>>)
  ELSE stringify_flow(value)

\* The cases in the order the code matches them.  value[-1] of the empty
\* string raises IndexError: see stringify_raises.
stringify_block_sequence_item(value) ==
  IF IsList(value) \/ IsMap(value) THEN
    <<"-", SP>> \o indent_block(stringify_block(value), default_indentation)
  ELSE IF IsStr(value) /\ EndsWith(value[2], NL) THEN
    <<"-", SP, "|", NL>> \o indent(value[2], default_indentation)
  ELSE IF IsStr(value) /\ Contains(value[2], NL) THEN
    <<"-", SP, "|", "-", NL>> \o indent(value[2], default_indentation)
  ELSE IF IsStr(value) /\ Contains(value[2], DQ) THEN
    <<"-", SP>> \o stringify_flow(value)
  ELSE IF IsStr(value) THEN <<"-", SP>> \o value[2]
  ELSE IF value = JNull THEN <<"-", SP>>
  ELSE <<"-", SP>> \o stringify_block(value)

\* A serializer of pairs that indents the items of a list as it indents the
\* pairs of a mapping.
stringify_block_mapping_pair_indented(key, value) ==
  IF IsList(value) \/ IsMap(value) THEN
    key \o <<":", NL>> \o indent(stringify_block(value), default_indentation)
  ELSE IF IsStr(value) /\ EndsWith(value[2], NL) THEN
    key \o <<":", SP, "|", NL>> \o indent(value[2], default_indentation)
  ELSE IF IsStr(value) /\ Contains(value[2], NL) THEN
    key \o <<":", SP, "|", "-", NL>> \o indent(value[2], default_indentation)
  ELSE IF IsStr(value) /\ Contains(value[2], DQ) THEN
    key \o <<":", SP>> \o stringify_flow(value)
  ELSE IF IsStr(value) THEN key \o <<":", SP>> \o value[2]
  ELSE IF value = JNull THEN key \o <<":">>
  ELSE key \o <<":", SP>> \o stringify_block(value)

stringify_block_mapping_pair(key, value) ==
  IF IsList(value) THEN key \o <<":", NL>> \o stringify_block(value)
  ELSE IF IsMap(value) THEN
    key \o <<":", NL>> \o indent(stringify_block(value), default_indentation)
  ELSE IF IsStr(value) /\ EndsWith(value[2], NL) THEN
    key \o <<":", SP, "|", NL>> \o indent(value[2], default_indentation)
  ELSE IF IsStr(value) /\ Contains(value[2], NL) THEN
    key \o <<":", SP, "|", "-", NL>> \o indent(value[2], default_indentation)
  ELSE IF IsStr(value) /\ Contains(value[2], DQ) THEN
    key \o <<":", SP>> \o stringify_flow(value)
  ELSE IF IsStr(value) THEN key \o <<":", SP>> \o value[2]
  ELSE IF value = JNull THEN key \o <<":">>
  ELSE key \o <<":", SP>> \o stringify_block(value)

\* Whether serializing value as a sequence item or a pair's value raises:
\* `value[-1]` is evaluated for every string, the empty one included, and so
\* for every string nested in a list or a mapping.
RECURSIVE stringify_raises(_)
stringify_raises(value) ==
  IF IsStr(value) THEN Len(value[2]) = 0
  ELSE IF IsList(value) THEN \E i \in 1..Len(value[2]) : stringify_raises(value[2][i])
  ELSE IF IsMap(value) THEN \E i \in 1..Len(value[2]) : stringify_raises(value[2][i][2])
  ELSE FALSE

\* stringify_block(value) raises only through a nested item or pair.
stringify_block_raises(value) ==
  (IsList(value) \/ IsMap(value)) /\ stringify_raises(value)

\* ------------------------------------------------------------ CST parser
\* Document.parse hands the text to the tree-sitter YAML parser.  The tree
\* it builds is modelled for the block-style subset the serializer and the
\* canonical dump write: block mappings and sequences of plain or quoted
\* scalars and of empty flow collections.  A node is a record
\*   [type, start, end, fld, kids]
\* with [start, end) its byte range, fld its field name in its parent ("",
\* "key" or "value") and kids its children in order, anonymous tokens (":",
\* "-", "{", ...) included.  A block collection closed by the end of input
\* ends at the end of input, its final newline included; one closed by a
\* dedent ends with its last entry.  A comment is modelled where it ends a
\* line: after "key:" or "-" it is a child of that pair or item, placed
\* before the value the following lines give; after an inline value it is
\* the next sibling of the pair or item the value belongs to.  No node is
\* made for a comment on a line of its own.

Node(type, start, end, fld, kids) ==
  [type |-> type, start |-> start, end |-> end, fld |-> fld, kids |-> kids]

NoNode == Node("none", 0, 0, "", <<>>)

\* The character at byte offset p, "" at or past the end of input.
Char(T, p) == IF p >= 0 /\ p < Len(T) THEN T[p + 1] ELSE ""

\* The offset of the newline ending the line of p, Len(T) on the last line.
LineEnd(T, p) ==
  LET i == IndexFrom(T, NL, p + 1) IN IF i = 0 THEN Len(T) ELSE i - 1

RECURSIVE SkipSpaces(_, _)
SkipSpaces(T, p) == IF Char(T, p) = SP THEN SkipSpaces(T, p + 1) ELSE p

RECURSIVE TrimEnd(_, _, _)
\* The end of T[from:to] without its trailing spaces.
TrimEnd(T, from, to) ==
  IF to > from /\ Char(T, to - 1) = SP THEN TrimEnd(T, from, to - 1) ELSE to

\* The first content at or after the line starting at ls: [pos, col], blank
\* lines and lines that hold only a comment skipped; pos = -1 when no
\* content is left.
RECURSIVE ContentFrom(_, _)
ContentFrom(T, ls) ==
  LET q == SkipSpaces(T, ls)
  IN IF q >= Len(T) THEN [pos |-> -1, col |-> 0]
     ELSE IF Char(T, q) = NL THEN ContentFrom(T, q + 1)
     ELSE IF Char(T, q) = "#" THEN
       IF LineEnd(T, q) >= Len(T) THEN [pos |-> -1, col |-> 0]
       ELSE ContentFrom(T, LineEnd(T, q) + 1)
     ELSE [pos |-> q, col |-> q - ls]

\* The first content on the lines after the line of offset e.
NextContent(T, e) ==
  IF LineEnd(T, e) >= Len(T) THEN [pos |-> -1, col |-> 0]
  ELSE ContentFrom(T, LineEnd(T, e) + 1)

IsDash(T, p) == Char(T, p) = "-" /\ Char(T, p + 1) \in {SP, NL, ""}

RECURSIVE ColonFrom(_, _, _)
\* The offset in [p, e) of the first ":" followed by a space or the line's end.
ColonFrom(T, p, e) ==
  IF p >= e THEN -1
  ELSE IF Char(T, p) = ":" /\ Char(T, p + 1) \in {SP, NL, ""} THEN p
  ELSE ColonFrom(T, p + 1, e)

RECURSIVE CommentFrom(_, _, _)
\* The offset in [p, e) of the first "#" that follows a space, -1 if none.
CommentFrom(T, p, e) ==
  IF p >= e THEN -1
  ELSE IF Char(T, p) = "#" /\ Char(T, p - 1) = SP THEN p
  ELSE CommentFrom(T, p + 1, e)

\* The end of the inline value starting at p: the comment ending its line,
\* looked for after the closing quote of a quoted scalar, or the line's end.
ValueEnd(T, p) ==
  LET e == LineEnd(T, p)
      quote == IF Char(T, p) \in {DQ, "'"} THEN IndexFrom(T, Char(T, p), p + 2) ELSE 0
      c == CommentFrom(T, IF quote > 0 /\ quote <= e THEN quote ELSE p + 1, e)
  IN IF c < 0 THEN e ELSE c

\* The comment ending the line of the inline value starting at p, if any.
TrailingComment(T, p) ==
  IF ValueEnd(T, p) < LineEnd(T, p)
    THEN <<Node("comment", ValueEnd(T, p), LineEnd(T, p), "", <<>>)>>
  ELSE <<>>

FlowIndicators == {DQ, "'", "{", "}", "[", "]", "|", ">", "#", "&", "*", "!", "%", "@"}

\* The offset of the ":" of an implicit key starting at p, -1 if p starts none.
KeyEnd(T, p) ==
  IF Char(T, p) \in FlowIndicators \/ IsDash(T, p) THEN -1
  ELSE LET k == ColonFrom(T, p, LineEnd(T, p))
       IN IF k > p THEN k ELSE -1

\* The scalar type the grammar gives a plain scalar.
PlainType(s) ==
  IF s \in {<<"n", "u", "l", "l">>, <<"N", "u", "l", "l">>, <<"N", "U", "L", "L">>, <<"~">>}
    THEN "null_scalar"
  ELSE IF s \in {<<"t", "r", "u", "e">>, <<"T", "r", "u", "e">>, <<"T", "R", "U", "E">>,
                 <<"f", "a", "l", "s", "e">>, <<"F", "a", "l", "s", "e">>,
                 <<"F", "A", "L", "S", "E">>}
    THEN "boolean_scalar"
  ELSE IF IsIntText(s) THEN "integer_scalar"
  ELSE "string_scalar"

RECURSIVE HasPair(_, _, _)
\* Whether character a is directly followed by character b somewhere in s.
HasPair(s, a, b) ==
  IF Len(s) < 2 THEN FALSE
  ELSE (s[1] = a /\ s[2] = b) \/ HasPair(Tail(s), a, b)

RECURSIVE FlowNode(_, _, _, _)
RECURSIVE FlowItems(_, _, _)

\* The children of a flow sequence written on [p, e), between its brackets:
\* a flow_node for each item and the "," after it.  No item holds a comma,
\* and nothing need follow the last comma.
FlowItems(T, p, e) ==
  LET q == SkipSpaces(T, p)
      comma == IndexFrom(Slice(T, 0, e), ",", q + 1)
  IN IF q >= e THEN <<>>
     ELSE IF comma = 0 THEN <<FlowNode(T, q, TrimEnd(T, q, e), "")>>
     ELSE <<FlowNode(T, q, TrimEnd(T, q, comma - 1), ""),
            Node(",", comma - 1, comma, "", <<>>)>>
            \o FlowItems(T, comma, e)

\* The flow node written on [p, e): a quoted scalar, an empty flow mapping,
\* a flow sequence or a plain scalar.  Text that is none of them is an ERROR
\* node.
FlowNode(T, p, e, fld) ==
  LET s == Slice(T, p, e)
      leaf(type) == Node(type, p, e, "", <<>>)
      tok(c, at) == Node(c, at, at + 1, "", <<>>)
  IN IF Len(s) >= 2 /\ s[1] = DQ /\ s[Len(s)] = DQ
          /\ ~Contains(SubSeq(s, 2, Len(s) - 1), DQ)
       THEN Node("flow_node", p, e, fld, <<leaf("double_quote_scalar")>>)
     ELSE IF Len(s) >= 2 /\ s[1] = "'" /\ s[Len(s)] = "'"
       THEN Node("flow_node", p, e, fld, <<leaf("single_quote_scalar")>>)
     ELSE IF s = <<"{", "}">>
       THEN Node("flow_node", p, e, fld,
                 <<Node("flow_mapping", p, e, "", <<tok("{", p), tok("}", p + 1)>>)>>)
     ELSE IF s = <<"[", "]">>
       THEN Node("flow_node", p, e, fld,
                 <<Node("flow_sequence", p, e, "", <<tok("[", p), tok("]", p + 1)>>)>>)
     ELSE IF Len(s) > 2 /\ s[1] = "[" /\ s[Len(s)] = "]"
       THEN Node("flow_node", p, e, fld,
                 <<Node("flow_sequence", p, e, "",
                        <<tok("[", p)>> \o FlowItems(T, p + 1, e - 1) \o <<tok("]", e - 1)>>)>>)
     ELSE IF \/ Len(s) = 0
             \/ s[1] \in FlowIndicators
             \/ IsDash(T, p)
             \/ HasPair(s, ":", SP) \/ HasPair(s, SP, "#")
             \/ s[Len(s)] = ":"
       THEN Node("ERROR", p, e, fld, <<>>)
     ELSE Node("flow_node", p, e, fld,
               <<Node("plain_scalar", p, e, "", <<leaf(PlainType(s))>>)>>)

RECURSIVE BlockNode(_, _, _, _)
RECURSIVE SequenceItems(_, _, _)
RECURSIVE MappingPairs(_, _, _)

\* The items of the block sequence whose "-" indicators stand in column col,
\* from the one at offset p on.
SequenceItems(T, p, col) ==
  LET dash == Node("-", p, p + 1, "", <<>>)
      q == SkipSpaces(T, p + 1)
      hash == q > p + 1 /\ Char(T, q) = "#"
      note == IF hash THEN <<Node("comment", q, LineEnd(T, q), "", <<>>)>> ELSE <<>>
      inline == q > p + 1 /\ Char(T, q) \notin {NL, "", "#"}
      scalar == inline /\ ~IsDash(T, q) /\ KeyEnd(T, q) < 0
      nxt == NextContent(T, p + 1)
      item(child) ==
        IF child = NoNode
          THEN <<Node("block_sequence_item", p, p + 1, "", <<dash>>)>> \o note
        ELSE <<Node("block_sequence_item", p, child.end, "", <<dash>> \o note \o <<child>>)>>
               \o (IF scalar THEN TrailingComment(T, q) ELSE <<>>)
      items(first) ==
        LET more == NextContent(T, first[Len(first)].end)
        IN IF more.pos >= 0 /\ more.col = col /\ IsDash(T, more.pos)
             THEN first \o SequenceItems(T, more.pos, col)
           ELSE first
  IN items(item(IF inline \/ (nxt.pos >= 0 /\ nxt.col > col)
                  THEN BlockNode(T, IF inline THEN q ELSE nxt.pos,
                                 IF inline THEN col + (q - p) ELSE nxt.col, "")
                ELSE NoNode))

\* The pairs of the block mapping whose keys stand in column col, from the
\* one at offset p on.
MappingPairs(T, p, col) ==
  LET k == KeyEnd(T, p)
      colon == Node(":", k, k + 1, "", <<>>)
      q == SkipSpaces(T, k + 1)
      hash == q > k + 1 /\ Char(T, q) = "#"
      note == IF hash THEN <<Node("comment", q, LineEnd(T, q), "", <<>>)>> ELSE <<>>
      inline == Char(T, q) \notin {NL, "", "#"}
      nxt == NextContent(T, k + 1)
      pair(key, value) ==
        IF value = NoNode
          THEN <<Node("block_mapping_pair", p, k + 1, "", <<key, colon>>)>> \o note
        ELSE <<Node("block_mapping_pair", p, value.end, "",
                    <<key, colon>> \o note \o <<value>>)>>
               \o (IF inline THEN TrailingComment(T, q) ELSE <<>>)
      pairs(first) ==
        LET more == NextContent(T, first[Len(first)].end)
        IN IF more.pos >= 0 /\ more.col = col /\ KeyEnd(T, more.pos) >= 0
             THEN first \o MappingPairs(T, more.pos, col)
           ELSE first
  IN pairs(pair(FlowNode(T, p, TrimEnd(T, p, k), "key"),
                IF inline
                  THEN FlowNode(T, q, TrimEnd(T, q, ValueEnd(T, q)), "value")
                ELSE IF nxt.pos >= 0
                        /\ (nxt.col > col \/ (nxt.col = col /\ IsDash(T, nxt.pos)))
                  THEN BlockNode(T, nxt.pos, nxt.col, "value")
                ELSE NoNode))

\* The node starting at offset p in column col: a block sequence, a block
\* mapping or a flow node filling the rest of the line.
BlockNode(T, p, col, fld) ==
  LET block(type, entries) ==
        LET last == entries[Len(entries)].end
            end == IF NextContent(T, last).pos < 0 THEN Len(T) ELSE last
        IN Node("block_node", p, end, fld, <<Node(type, p, end, "", entries)>>)
  IN IF IsDash(T, p) THEN block("block_sequence", SequenceItems(T, p, col))
     ELSE IF KeyEnd(T, p) >= 0 THEN block("block_mapping", MappingPairs(T, p, col))
     ELSE FlowNode(T, p, TrimEnd(T, p, ValueEnd(T, p)), fld)

\* parser.parse(text): the stream, its document and the document's node.
\* Content the document's node leaves over is an ERROR child.
ParseTree(T) ==
  LET first == ContentFrom(T, 0)
      document(top) ==
        LET rest == NextContent(T, top.end)
        IN Node("document", first.pos, Len(T), "",
                IF rest.pos >= 0
                  THEN <<top, Node("ERROR", rest.pos, Len(T), "", <<>>)>>
                ELSE IF top.type = "flow_node" THEN <<top>> \o TrailingComment(T, first.pos)
                ELSE <<top>>)
  IN IF first.pos < 0 THEN Node("stream", 0, Len(T), "", <<>>)
     ELSE Node("stream", 0, Len(T), "",
               <<document(BlockNode(T, first.pos, first.col, ""))>>)

\* ---------------------------------------------------------- value reader

\* A raised exception, carried in place of a value.
Raised(kind) == <<"error", kind>>
IsRaised(v) == v[1] = "error"

Anonymous == {":", "-", "{", "}", "[", "]", ",", "?"}

RECURSIVE SelectKids(_, _)
\* The children whose type is in types, in order.
SelectKids(kids, types) ==
  IF Len(kids) = 0 THEN <<>>
  ELSE (IF kids[1].type \in types THEN <<kids[1]>> ELSE <<>>)
         \o SelectKids(Tail(kids), types)

RECURSIVE RejectKids(_, _)
RejectKids(kids, types) ==
  IF Len(kids) = 0 THEN <<>>
  ELSE (IF kids[1].type \in types THEN <<>> ELSE <<kids[1]>>)
         \o RejectKids(Tail(kids), types)

named_children(node) == RejectKids(node.kids, Anonymous)

RECURSIVE FieldKids(_, _)
\* node.children_by_field_name(name)
FieldKids(kids, name) ==
  IF Len(kids) = 0 THEN <<>>
  ELSE (IF kids[1].fld = name THEN <<kids[1]>> ELSE <<>>) \o FieldKids(Tail(kids), name)

\* node.child_by_field_name(name): the first such child, NoNode for None.
child_by_field_name(node, name) ==
  LET found == FieldKids(node.kids, name)
  IN IF Len(found) = 0 THEN NoNode ELSE found[1]

node_text(T, node) == Slice(T, node.start, node.end)

unescape_single_quoted(t) ==
  LET RECURSIVE go(_)
      go(r) == IF Len(r) = 0 THEN <<>>
               ELSE IF Len(r) >= 2 /\ r[1] = "'" /\ r[2] = "'"
                 THEN <<"'">> \o go(SubSeq(r, 3, Len(r)))
               ELSE <<r[1]>> \o go(Tail(r))
  IN go(t)

\* Escapes \n, \r, \t and \0 name their character; any other escaped
\* character stands for itself (the \x, \u and \U forms are not modelled).
unescape_double_quoted(t) ==
  LET one(c) == IF c = "n" THEN NL
                ELSE IF c = "t" THEN "\t"
                ELSE IF c = "r" THEN "\r"
                ELSE c
      RECURSIVE go(_)
      go(r) == IF Len(r) = 0 THEN <<>>
               ELSE IF Len(r) >= 2 /\ r[1] = "\\" /\ r[2] # NL
                 THEN <<one(r[2])>> \o go(SubSeq(r, 3, Len(r)))
               ELSE <<r[1]>> \o go(Tail(r))
  IN go(t)

parse_boolean(t) == t \in {<<"t", "r", "u", "e">>, <<"T", "r", "u", "e">>, <<"T", "R", "U", "E">>}

RECURSIVE parse_node(_, _)
RECURSIVE parse_items(_, _)
RECURSIVE parse_pairs(_, _)

\* The key a mapping entry is stored under.  Keys are strings throughout the
\* model; a key read as another scalar is kept apart from every string key.
KeyOf(v) == IF IsStr(v) THEN v[2] ELSE <<"?">> \o json_dumps(v)

parse_items(T, items) ==
  IF Len(items) = 0 THEN <<>>
  ELSE <<parse_node(T, items[1])>> \o parse_items(T, Tail(items))

parse_pairs(T, pairs) ==
  IF Len(pairs) = 0 THEN <<>>
  ELSE << <<parse_node(T, child_by_field_name(pairs[1], "key")),
            parse_node(T, child_by_field_name(pairs[1], "value"))>> >>
         \o parse_pairs(T, Tail(pairs))

\* The first exception among the entries read, in evaluation order (a
\* pair's key before its value); JNull if none raised.
FirstRaised(vals) ==
  IF \E i \in 1..Len(vals) : IsRaised(vals[i])
    THEN vals[CHOOSE i \in 1..Len(vals) :
                IsRaised(vals[i]) /\ \A j \in 1..(i - 1) : ~IsRaised(vals[j])]
  ELSE JNull

RECURSIVE Flatten(_)
Flatten(pairs) ==
  IF Len(pairs) = 0 THEN <<>> ELSE pairs[1] \o Flatten(Tail(pairs))

RECURSIVE KeyedPairs(_)
KeyedPairs(pairs) ==
  IF Len(pairs) = 0 THEN <<>>
  ELSE << <<KeyOf(pairs[1][1]), pairs[1][2]>> >> \o KeyedPairs(Tail(pairs))

\* parse_node(node): the JSON value a CST node reads as, or the exception
\* raised while reading it.
parse_node(T, node) ==
  LET named == named_children(node)
      items(types) == parse_items(T, SelectKids(node.kids, types))
      pairs(types) == parse_pairs(T, SelectKids(node.kids, types))
      read_list(values) ==
        IF FirstRaised(values) # JNull THEN FirstRaised(values) ELSE JList(values)
      read_map(entries) ==
        IF FirstRaised(Flatten(entries)) # JNull THEN FirstRaised(Flatten(entries))
        ELSE JMap(KeyedPairs(entries))
      list(types) == read_list(items(types))
      map(types) == read_map(pairs(types))
  IN CASE node.type = "none" -> Raised("AttributeError")
       [] node.type = "block_mapping" -> map({"block_mapping_pair"})
       [] node.type = "block_sequence" -> list({"block_sequence_item"})
       [] node.type = "flow_mapping" -> map({"flow_pair"})
       [] node.type = "flow_sequence" -> list({"flow_node"})
       [] node.type \in {"document", "stream", "block_node", "flow_node", "flow_scalar",
                         "plain_scalar", "block_sequence_item"} ->
            IF Len(named) = 1 THEN parse_node(T, named[1]) ELSE Raised("ValueError")
       [] node.type = "null_scalar" -> JNull
       [] node.type = "boolean_scalar" -> JBool(parse_boolean(node_text(T, node)))
       [] node.type = "integer_scalar" -> JInt(IntValue(node_text(T, node)))
       [] node.type = "string_scalar" -> JStr(node_text(T, node))
       [] node.type = "double_quote_scalar" ->
            JStr(unescape_double_quoted(Slice(T, node.start + 1, node.end - 1)))
       [] node.type = "single_quote_scalar" ->
            JStr(unescape_single_quoted(Slice(T, node.start + 1, node.end - 1)))
       [] OTHER -> Raised("ValueError")

\* ----------------------------------------------------------- navigation
\* A node of the tree is named by its position: the child indices leading to
\* it from the root (<<>> is the root).  A lookup returns <<"node", np>> or a
\* raised exception.

RECURSIVE At(_, _)
At(tree, np) == IF Len(np) = 0 THEN tree ELSE At(tree.kids[np[1]], Tail(np))

Found(np) == <<"node", np>>

HasParent(np) == Len(np) > 0
Parent(np) == SubSeq(np, 1, Len(np) - 1)

\* The positions of the children of np whose type is in types.
KidsOfType(tree, np, types) ==
  LET kids == At(tree, np).kids
      RECURSIVE go(_)
      go(i) == IF i > Len(kids) THEN <<>>
               ELSE (IF kids[i].type \in types THEN <<np \o <<i>>>> ELSE <<>>) \o go(i + 1)
  IN go(1)

KidsOfField(tree, np, name) ==
  LET kids == At(tree, np).kids
      RECURSIVE go(_)
      go(i) == IF i > Len(kids) THEN <<>>
               ELSE (IF kids[i].fld = name THEN <<np \o <<i>>>> ELSE <<>>) \o go(i + 1)
  IN go(1)

KidsNotOfType(tree, np, types) ==
  LET kids == At(tree, np).kids
      RECURSIVE go(_)
      go(i) == IF i > Len(kids) THEN <<>>
               ELSE (IF kids[i].type \in types THEN <<>> ELSE <<np \o <<i>>>>) \o go(i + 1)
  IN go(1)

\* single(nodes)
single(nps) == IF Len(nps) = 1 THEN Found(nps[1]) ELSE Raised("ValueError")

RECURSIVE converge(_, _)
converge(tree, np) ==
  LET rest == KidsNotOfType(tree, np, {"comment", "anchor"})
  IN IF At(tree, np).type \in {"stream", "document", "block_node", "flow_node", "plain_scalar"}
       THEN IF Len(rest) = 1 THEN converge(tree, rest[1]) ELSE Raised("ValueError")
     ELSE Found(np)

\* The pairs among nps that key_field(name) keeps, as <<"nodes", nps>>: a
\* child of the key's flow_node reads as the string name.  A read that
\* raises, raises here.
key_field(T, tree, nps, name) ==
  With([i \in 1..Len(nps) |->
          LET keys == KidsOfField(tree, nps[i], "key")
          IN Flatten([k \in 1..Len(keys) |->
                        IF At(tree, keys[k]).type = "flow_node"
                          THEN parse_items(T, At(tree, keys[k]).kids) ELSE <<>>])],
       LAMBDA reads :
         IF FirstRaised(Flatten(reads)) # JNull THEN FirstRaised(Flatten(reads))
         ELSE <<"nodes",
                Flatten([i \in 1..Len(nps) |->
                           IF \E j \in 1..Len(reads[i]) : reads[i][j] = JStr(name)
                             THEN <<nps[i]>> ELSE <<>>])>>)

\* [*items][int(name)]: a negative index counts from the end.
item_at(items, name) ==
  LET index == IntValue(name)
  IN IF ~IsIntText(name) THEN Raised("ValueError")
     ELSE IF index >= Len(items) \/ index < 0 - Len(items) THEN Raised("IndexError")
     ELSE IF index < 0 THEN Found(items[Len(items) + index + 1])
     ELSE Found(items[index + 1])

RECURSIVE get_node_by_name(_, _, _, _)
get_node_by_name(T, tree, np0, name) ==
  With(converge(tree, np0), LAMBDA c :
    IF IsRaised(c) THEN c
    ELSE IF At(tree, c[2]).type = "block_mapping" THEN
      With(key_field(T, tree, KidsOfType(tree, c[2], {"block_mapping_pair"}), name),
           LAMBDA pairs : IF IsRaised(pairs) THEN pairs ELSE single(pairs[2]))
    ELSE IF At(tree, c[2]).type = "block_sequence" THEN
      item_at(KidsOfType(tree, c[2], {"block_sequence_item"}), name)
    ELSE IF At(tree, c[2]).type
              \in {"block_sequence_item", "flow_item", "block_mapping_pair", "flow_pair"} THEN
      With(single(IF At(tree, c[2]).type \in {"block_sequence_item", "flow_item"}
                    THEN KidsOfType(tree, c[2], {"block_node", "flow_node"})
                  ELSE KidsOfField(tree, c[2], "value")),
           LAMBDA inner : IF IsRaised(inner) THEN inner
                          ELSE get_node_by_name(T, tree, inner[2], name))
    \* `raise NotImplemented(...)` calls a non-callable: TypeError.
    ELSE IF At(tree, c[2]).type \in {"flow_sequence", "flow_mapping"} THEN Raised("TypeError")
    ELSE Raised("ValueError"))

RECURSIVE WalkPath(_, _, _, _)
WalkPath(T, tree, np, path) ==
  IF Len(path) = 0 THEN Found(np)
  ELSE With(get_node_by_name(T, tree, np, path[1]),
            LAMBDA step : IF IsRaised(step) THEN step
                          ELSE WalkPath(T, tree, step[2], Tail(path)))

\* get_node_by_path(root, path): from the stream's first named child on.
get_node_by_path(T, tree, path) ==
  LET named == KidsNotOfType(tree, <<>>, Anonymous)
      from == IF tree.type = "stream" /\ Len(named) > 0 THEN named[1] ELSE <<>>
  IN WalkPath(T, tree, from, path)

\* ------------------------------------------------- text-context helpers

IsBlank(c) == c \in {SP, "\t"}

RECURSIVE LeadBlank(_)
\* The length of the run of spaces and tabs t starts with.
LeadBlank(t) == IF Len(t) > 0 /\ IsBlank(t[1]) THEN 1 + LeadBlank(Tail(t)) ELSE 0

RECURSIVE TrailBlank(_)
TrailBlank(t) ==
  IF Len(t) > 0 /\ IsBlank(t[Len(t)]) THEN 1 + TrailBlank(SubSeq(t, 1, Len(t) - 1)) ELSE 0

\* The text after the last newline of t.
LastLine(t) == LET lines == Split(t, NL) IN lines[Len(lines)]

\* re.search("(?:^|\n)([ \t]*)([^ \t\n\r][^\n]*)?$", prefix): `$` also
\* matches before a final newline and the leftmost match wins, so the groups
\* are cut from the last line, or, when the prefix ends in a newline, from
\* the line that newline ends.  rest is <<>> where the group is None.
indentation_match(prefix) ==
  With(LastLine(IF EndsWith(prefix, NL) THEN SubSeq(prefix, 1, Len(prefix) - 1)
                ELSE prefix),
       LAMBDA line :
         [indentation |-> SubSeq(line, 1, LeadBlank(line)),
          rest |-> SubSeq(line, LeadBlank(line) + 1, Len(line))])

\* The text between the start of the nearest node, np or an ancestor, that
\* has a newline before np's start, and np's start (the root if none has).
indentation_prefix(T, tree, np) ==
  LET start == At(tree, np).start
      RECURSIVE up(_)
      up(a) == IF Contains(Slice(T, At(tree, a).start, start), NL) \/ ~HasParent(a)
                 THEN a ELSE up(Parent(a))
  IN Slice(T, At(tree, up(np)).start, start)

get_indentation(T, tree, np) ==
  indentation_match(indentation_prefix(T, tree, np)).indentation

get_block_indentation(T, tree, np) ==
  With(indentation_match(indentation_prefix(T, tree, np)),
       LAMBDA m : IF Len(m.rest) > 0 /\ m.rest[1] = "-"
                    THEN m.indentation \o default_indentation
                  ELSE m.indentation)

get_text_before(T, tree, np) ==
  LET start == At(tree, np).start
      RECURSIVE up(_)
      up(a) == IF HasParent(a) /\ At(tree, a).start = start THEN up(Parent(a)) ELSE a
  IN Slice(T, At(tree, up(np)).start, start)

get_text_after(T, tree, np) ==
  LET end == At(tree, np).end
      RECURSIVE up(_)
      up(a) == IF HasParent(a) /\ At(tree, a).end = end THEN up(Parent(a)) ELSE a
  IN Slice(T, end, At(tree, up(np)).end)

\* The match of "[ \t]*\n?[ \t]*$" (newline optional) or "[ \t]*\n[ \t]*$"
\* on t as [start, len], len = -1 if there is none.  A match ends at the end
\* of t or, `$` matching there too, before t's final newline; the leftmost
\* start wins, and from one start the longer match.
blank_suffix_match(t, newline_required) ==
  LET at_end(q) ==
        LET w == TrailBlank(q)
            before == SubSeq(q, 1, Len(q) - w)
        IN IF EndsWith(before, NL)
             THEN w + 1 + TrailBlank(SubSeq(before, 1, Len(before) - 1))
           ELSE IF newline_required THEN -1 ELSE w
      leftmost(a, b) ==
        IF a < 0 /\ b < 0 THEN [start |-> 0, len |-> -1]
        ELSE IF b < 0 \/ (a >= 0 /\ Len(t) - a <= Len(t) - 1 - b)
          THEN [start |-> Len(t) - a, len |-> a]
        ELSE [start |-> Len(t) - 1 - b, len |-> b]
  IN leftmost(at_end(t),
              IF EndsWith(t, NL) THEN at_end(SubSeq(t, 1, Len(t) - 1)) ELSE -1)

\* expand_prefix_pattern(node, selection, pattern) for the two patterns used.
expand_prefix_pattern(T, tree, np, selection, newline_required) ==
  With(blank_suffix_match(get_text_before(T, tree, np), newline_required),
       LAMBDA m : IF m.len >= 0 THEN <<selection[1] - m.len, selection[2]>>
                  ELSE selection)

\* expand_suffix_pattern(node, selection, pattern) for "^[ \t]+" and
\* "^[ \t]*": both grow the selection by the run of blanks after the node.
expand_suffix_pattern(T, tree, np, selection) ==
  <<selection[1], selection[2] + LeadBlank(get_text_after(T, tree, np))>>

select_node(tree, np) == <<At(tree, np).start, At(tree, np).end>>

\* node.start_point[0]: the newlines before the node's start.
row_of(T, tree, np) ==
  Cardinality({i \in 1..At(tree, np).start : T[i] = NL})

HasNextSibling(tree, np) == HasParent(np) /\ np[Len(np)] < Len(At(tree, Parent(np)).kids)
next_sibling(np) == Parent(np) \o <<np[Len(np)] + 1>>

\* previous_node(node): the previous sibling of the node or of its nearest
\* ancestor that has one, as a list of at most one position.
RECURSIVE previous_node(_)
previous_node(np) ==
  IF ~HasParent(np) THEN <<>>
  ELSE IF np[Len(np)] > 1 THEN <<Parent(np) \o <<np[Len(np)] - 1>>>>
  ELSE previous_node(Parent(np))

\* ---------------------------------------------------------------- edits
\* An edit is a record [kind, start_byte, end_byte, content]; an Insert has
\* no end_byte of its own (it is kept equal to start_byte) and a Remove no
\* content.  An operation's compilation is <<"edits", list>> or a raised
\* exception.

Replace(start_byte, end_byte, content) ==
  [kind |-> "Replace", start_byte |-> start_byte, end_byte |-> end_byte, content |-> content]
Insert(start_byte, content) ==
  [kind |-> "Insert", start_byte |-> start_byte, end_byte |-> start_byte, content |-> content]
Remove(start_byte, end_byte) ==
  [kind |-> "Remove", start_byte |-> start_byte, end_byte |-> end_byte, content |-> <<>>]

Edits(list) == <<"edits", list>>

\* re.sub(r"(\n|$)", f" {comment}\\1", text, count=1): the comment goes in
\* before the first newline, or at the end of a text without one.
attach_comment(text, comment) ==
  LET i == IndexFrom(text, NL, 1)
  IN IF i = 0 THEN text \o <<SP>> \o comment
     ELSE SubSeq(text, 1, i - 1) \o <<SP>> \o comment \o SubSeq(text, i, Len(text))

edit_replace(T, tree, path, value) ==
  With(get_node_by_path(T, tree, path), LAMBDA found :
    LET np == found[2]
        node == At(tree, np)
        key == node_text(T, child_by_field_name(node, "key"))
        \* A comment child of a block_scalar child of the pair, if there is one.
        scalar_comments ==
          Flatten([i \in 1..Len(KidsOfType(tree, np, {"block_scalar"})) |->
                     KidsOfType(tree, KidsOfType(tree, np, {"block_scalar"})[i], {"comment"})])
        adjacent == HasNextSibling(tree, np)
                      /\ At(tree, next_sibling(np)).type = "comment"
                      /\ row_of(T, tree, next_sibling(np)) = row_of(T, tree, np)
        comment == IF adjacent THEN node_text(T, At(tree, next_sibling(np)))
                   ELSE IF Len(scalar_comments) = 1
                     THEN node_text(T, At(tree, scalar_comments[1]))
                   ELSE <<>>
        pair_end == IF adjacent THEN At(tree, next_sibling(np)).end ELSE node.end
        with_comment(yaml_pair) ==
          IF Len(comment) > 0 THEN attach_comment(yaml_pair, comment) ELSE yaml_pair
        newline == IF EndsWith(node_text(T, node), NL) THEN <<NL>> ELSE <<>>
        replace_item(selection, yaml_item) ==
          Edits(<<Replace(selection[1], selection[2], yaml_item \o newline)>>)
    IN IF IsRaised(found) THEN found
       ELSE IF node.type = "block_mapping_pair" THEN
         IF stringify_raises(value) THEN Raised("IndexError")
         ELSE IF Len(scalar_comments) > 1 THEN Raised("ValueError")
         ELSE Edits(<<Replace(node.start, pair_end,
                              with_comment(indent_block(stringify_block_mapping_pair(key, value),
                                                        get_block_indentation(T, tree, np)))
                                \o newline)>>)
       ELSE IF node.type = "flow_pair" THEN
         Edits(<<Replace(node.start, node.end, stringify_flow(value))>>)
       ELSE IF node.type = "block_sequence_item" THEN
         IF stringify_raises(value) THEN Raised("IndexError")
         ELSE replace_item(expand_suffix_pattern(T, tree, np, select_node(tree, np)),
                           indent_block(stringify_block_sequence_item(value),
                                        get_block_indentation(T, tree, np)))
       ELSE IF node.type = "document" THEN
         IF stringify_block_raises(value) THEN Raised("IndexError")
         ELSE Edits(<<Replace(node.start, node.end, stringify_block(value) \o <<NL>>)>>)
       ELSE Raised("ValueError"))

\* The block or flow collections that are children of a block_node or
\* flow_node child of np: the parent edit_add inserts into.
add_targets(tree, np) ==
  LET wraps == KidsOfType(tree, np, {"block_node", "flow_node"})
      inner(w) == IF At(tree, w).type = "block_node"
                    THEN KidsOfType(tree, w, {"block_sequence", "block_mapping"})
                  ELSE KidsOfType(tree, w, {"flow_sequence", "flow_mapping"})
  IN Flatten([i \in 1..Len(wraps) |-> inner(wraps[i])])

edit_add(T, tree, path, value) ==
  LET parent_path == SubSeq(path, 1, Len(path) - 1)
      key == path[Len(path)]
  IN \* `*parent_path, key = path` needs at least one segment.
     IF Len(path) = 0 THEN Raised("ValueError")
     ELSE With(get_node_by_path(T, tree, parent_path), LAMBDA found :
       IF IsRaised(found) THEN found
       ELSE With(single(add_targets(tree, found[2])), LAMBDA target :
         LET np == target[2]
             parent == At(tree, np)
             siblings == KidsOfType(tree, np, {"block_sequence_item"})
             index == IF key = <<"-">> THEN Len(siblings) ELSE IntValue(key)
             sibling == IF index < 0 THEN siblings[Len(siblings) + index + 1]
                        ELSE siblings[index + 1]
             flow_siblings == KidsOfType(tree, np, {"flow_sequence_item"})
             flow_index == IntValue(key)
         IN IF IsRaised(target) THEN target
            ELSE IF parent.type = "block_mapping" THEN
              IF stringify_raises(value) THEN Raised("IndexError")
              ELSE Edits(<<Insert(parent.end,
                                  indent(stringify_block_mapping_pair(key, value),
                                         get_block_indentation(T, tree, np)) \o <<NL>>)>>)
            ELSE IF parent.type = "block_sequence" THEN
              IF key # <<"-">> /\ ~IsIntText(key) THEN Raised("ValueError")
              ELSE IF stringify_raises(value) THEN Raised("IndexError")
              ELSE IF index = Len(siblings) THEN
                Edits(<<Insert(parent.end,
                               indent(stringify_block_sequence_item(value),
                                      get_block_indentation(T, tree, np)) \o <<NL>>)>>)
              ELSE IF index > Len(siblings) \/ index < 0 - Len(siblings)
                THEN Raised("IndexError")
              ELSE Edits(<<Insert(At(tree, sibling).start,
                                  indent_block(stringify_block_sequence_item(value),
                                               get_indentation(T, tree, sibling))
                                    \o <<NL>> \o get_indentation(T, tree, sibling))>>)
            ELSE IF parent.type = "flow_mapping" THEN
              Edits(<<Insert(parent.end,
                             <<",", SP>> \o stringify_flow(JStr(key)) \o <<":", SP>>
                               \o stringify_flow(value))>>)
            ELSE IF parent.type = "flow_sequence" THEN
              IF ~IsIntText(key) THEN Raised("ValueError")
              ELSE IF flow_index > 0 THEN
                IF flow_index >= Len(flow_siblings) THEN Raised("IndexError")
                ELSE Edits(<<Insert(At(tree, flow_siblings[flow_index + 1]).end,
                                    <<",", SP>> \o stringify_flow(value))>>)
              ELSE Edits(<<Insert(parent.start + 1, stringify_flow(value))>>)
            ELSE Raised("ValueError")))

\* A removal that cuts the node out whatever its container is left with.
edit_remove_node_only(T, tree, path) ==
  With(get_node_by_path(T, tree, path), LAMBDA found :
    IF IsRaised(found) THEN found
    ELSE Edits(<<Remove(At(tree, found[2]).start, At(tree, found[2]).end)>>))

edit_remove(T, tree, path) ==
  With(get_node_by_path(T, tree, path), LAMBDA found :
    LET np == found[2]
        node == At(tree, np)
        up == Parent(np)
        previous == previous_node(np)
        comment == IF Len(previous) = 1 /\ At(tree, previous[1]).type = "comment"
                     THEN previous[1] ELSE <<>>
        \* The collection sits in a block_node that is the child of an item or pair.
        nested == /\ Len(up) >= 2
                  /\ At(tree, Parent(up)).type = "block_node"
                  /\ At(tree, Parent(Parent(up))).type
                       \in {"block_sequence_item", "block_mapping_pair"}
        fragment(empty, ends_with_newline) ==
          (IF nested THEN <<SP>> ELSE <<>>) \o empty
            \o (IF Len(comment) > 0 THEN <<SP>> \o node_text(T, At(tree, comment)) ELSE <<>>)
            \o (IF ends_with_newline THEN <<NL>> ELSE <<>>)
        \* The last pair or item goes with the comment before it, and an empty
        \* flow collection takes the place of the block collection.
        replace_last(selection, empty, ends_with_newline) ==
          Edits(<<Replace(IF Len(comment) > 0 THEN At(tree, comment).start
                          ELSE selection[1],
                          selection[2], fragment(empty, ends_with_newline))>>)
        remove_selection(selection) == Edits(<<Remove(selection[1], selection[2])>>)
    IN IF IsRaised(found) THEN found
       ELSE IF node.type = "block_mapping_pair" THEN
         IF At(tree, up).type = "block_mapping"
              /\ KidsOfType(tree, up, {"block_mapping_pair"}) = <<np>>
           THEN replace_last(
                  expand_suffix_pattern(T, tree, np,
                    expand_prefix_pattern(T, tree, np, select_node(tree, up), FALSE)),
                  <<"{", "}">>, EndsWith(node_text(T, At(tree, up)), NL))
         ELSE Edits(<<Remove(node.start, node.end)>>)
       ELSE IF node.type = "block_sequence_item" THEN
         IF At(tree, up).type = "block_sequence"
              /\ KidsOfType(tree, up, {"block_sequence_item"}) = <<np>>
           THEN replace_last(
                  expand_suffix_pattern(T, tree, np,
                    expand_prefix_pattern(T, tree, np, select_node(tree, np), TRUE)),
                  <<"[", "]">>, EndsWith(node_text(T, node), NL))
         ELSE remove_selection(expand_prefix_pattern(T, tree, np, select_node(tree, np), TRUE))
       ELSE IF node.type = "flow_pair" THEN Edits(<<Remove(node.start, node.end)>>)
       ELSE Raised("ValueError"))

\* a == b of Python on JSON values: as JsonEq, but True == 1 and False == 0.
RECURSIVE py_equal(_, _)
py_equal(a, b) ==
  LET num(v) == IF v[1] = "bool" THEN (IF v[2] THEN 1 ELSE 0) ELSE v[2]
  IN IF a[1] \in {"bool", "int"} /\ b[1] \in {"bool", "int"} THEN num(a) = num(b)
     ELSE IF a[1] # b[1] THEN FALSE
     ELSE IF IsList(a) THEN
       /\ Len(a[2]) = Len(b[2])
       /\ \A i \in 1..Len(a[2]) : py_equal(a[2][i], b[2][i])
     ELSE IF IsMap(a) THEN
       /\ \A i \in 1..Len(a[2]) : HasKey(b[2], a[2][i][1])
       /\ \A i \in 1..Len(b[2]) : HasKey(a[2], b[2][i][1])
       /\ \A i \in 1..Len(a[2]) :
            py_equal(Lookup(a[2], a[2][i][1]), Lookup(b[2], a[2][i][1]))
     ELSE a[2] = b[2]

\* get_value_by_path(root, path) on the JSON value read from the tree.  A
\* last segment applied to a scalar matches only the `[segment, *rest]` case,
\* which calls itself with the same arguments: RecursionError.
RECURSIVE get_value_by_path(_, _)
get_value_by_path(root, path) ==
  LET segment == path[1]
      index == IntValue(segment)
      head == IF IsMap(root) THEN
                IF HasKey(root[2], segment) THEN Lookup(root[2], segment)
                ELSE Raised("KeyError")
              ELSE IF IsList(root) THEN
                IF ~IsIntText(segment) THEN Raised("ValueError")
                ELSE IF index >= Len(root[2]) \/ index < 0 - Len(root[2])
                  THEN Raised("IndexError")
                ELSE IF index < 0 THEN root[2][Len(root[2]) + index + 1]
                ELSE root[2][index + 1]
              ELSE Raised("RecursionError")
  IN IF Len(path) = 0 THEN root
     ELSE IF IsRaised(head) \/ Len(path) = 1 THEN head
     ELSE get_value_by_path(head, Tail(path))

\* edit_move reads the value at `path` (its `from_` is unused), then yields
\* the edits of edit_remove(path) and of edit_add(path, value).
edit_move(T, tree, from_, path) ==
  With(parse_node(T, tree), LAMBDA root_value :
    IF IsRaised(root_value) THEN root_value
    ELSE With(get_value_by_path(root_value, path), LAMBDA value :
      IF IsRaised(value) THEN value
      ELSE With(edit_remove(T, tree, path), LAMBDA removed :
        IF IsRaised(removed) THEN removed
        ELSE With(edit_add(T, tree, path, value), LAMBDA added :
          IF IsRaised(added) THEN added ELSE Edits(removed[2] \o added[2])))))

\* edit_copy reads the value at `path` too and yields edit_add(path, value).
edit_copy(T, tree, from_, path) ==
  With(parse_node(T, tree), LAMBDA root_value :
    IF IsRaised(root_value) THEN root_value
    ELSE With(get_value_by_path(root_value, path), LAMBDA value :
      IF IsRaised(value) THEN value ELSE edit_add(T, tree, path, value)))

\* The exception edit_test raises: the name edit.py imports from json_patch,
\* which defines no such class; the specification names it as the error of a
\* failed test.
TestFailure == "TestFailure"

\* What edit_test returns when the value read equals the expected one.  The
\* function has no yield, so it is no generator: it returns None, and the
\* caller's `yield from None` raises TypeError.
test_passed == Raised("TypeError")

\* edit_test(root, path, value): only a ValueError of the lookup becomes a
\* TestFailure; the value of a pair is read from its "value" field.
edit_test(T, tree, path, value) ==
  With(get_node_by_path(T, tree, path), LAMBDA found :
    LET node == At(tree, found[2])
    IN IF found = Raised("ValueError") THEN Raised(TestFailure)
       ELSE IF IsRaised(found) THEN found
       ELSE With(parse_node(T, IF node.type \in {"block_mapping_pair", "flow_mapping_pair"}
                                 THEN child_by_field_name(node, "value") ELSE node),
                 LAMBDA actual :
                   IF IsRaised(actual) THEN actual
                   ELSE IF ~py_equal(actual, value) THEN Raised(TestFailure)
                   ELSE test_passed))

\* A patch operation: [op, path, from, value], path and from the parts of
\* their pointers; an operation without a `from` or a `value` carries <<>>
\* or JNull there.
JSONPatchAdd(path, value) == [op |-> "add", path |-> path, from |-> <<>>, value |-> value]
JSONPatchRemove(path) == [op |-> "remove", path |-> path, from |-> <<>>, value |-> JNull]
JSONPatchReplace(path, value) ==
  [op |-> "replace", path |-> path, from |-> <<>>, value |-> value]
JSONPatchMove(from_, path) == [op |-> "move", path |-> path, from |-> from_, value |-> JNull]
JSONPatchCopy(from_, path) == [op |-> "copy", path |-> path, from |-> from_, value |-> JNull]
JSONPatchTest(path, value) == [op |-> "test", path |-> path, from |-> <<>>, value |-> value]

edit_patch_operation(T, tree, operation) ==
  CASE operation.op = "add" -> edit_add(T, tree, operation.path, operation.value)
    [] operation.op = "remove" -> edit_remove(T, tree, operation.path)
    [] operation.op = "replace" -> edit_replace(T, tree, operation.path, operation.value)
    [] operation.op = "move" -> edit_move(T, tree, operation.from, operation.path)
    [] operation.op = "copy" -> edit_copy(T, tree, operation.from, operation.path)
    [] operation.op = "test" -> edit_test(T, tree, operation.path, operation.value)
    [] OTHER -> Raised("ValueError")

\* ------------------------------------------------------- edit applicator

\* The sort without reverse=True: ascending by start_byte, stable.
sort_edits_ascending(list) ==
  LET RECURSIVE insert(_, _)
      insert(e, sorted) ==
        IF Len(sorted) = 0 THEN <<e>>
        ELSE IF sorted[1].start_byte <= e.start_byte
          THEN <<sorted[1]>> \o insert(e, Tail(sorted))
        ELSE <<e>> \o sorted
      RECURSIVE go(_, _)
      go(rest, sorted) ==
        IF Len(rest) = 0 THEN sorted ELSE go(Tail(rest), insert(rest[1], sorted))
  IN go(list, <<>>)

\* A descending sort that is not stable: edits of equal start_byte come out
\* in the reverse of the order they were emitted in.
sort_edits_ties_reversed(list) ==
  LET RECURSIVE insert(_, _)
      insert(e, sorted) ==
        IF Len(sorted) = 0 THEN <<e>>
        ELSE IF sorted[1].start_byte > e.start_byte
          THEN <<sorted[1]>> \o insert(e, Tail(sorted))
        ELSE <<e>> \o sorted
      RECURSIVE go(_, _)
      go(rest, sorted) ==
        IF Len(rest) = 0 THEN sorted ELSE go(Tail(rest), insert(rest[1], sorted))
  IN go(list, <<>>)

\* list.sort(key=start_byte, reverse=True): descending, and stable: edits of
\* equal start_byte keep the order they were emitted in.
RECURSIVE sort_edits(_)
sort_edits(list) ==
  LET RECURSIVE insert(_, _)
      \* e goes after every sorted edit whose start_byte is not smaller.
      insert(e, sorted) ==
        IF Len(sorted) = 0 THEN <<e>>
        ELSE IF sorted[1].start_byte >= e.start_byte
          THEN <<sorted[1]>> \o insert(e, Tail(sorted))
        ELSE <<e>> \o sorted
      RECURSIVE go(_, _)
      go(rest, sorted) ==
        IF Len(rest) = 0 THEN sorted ELSE go(Tail(rest), insert(rest[1], sorted))
  IN go(list, <<>>)

\* One step of the loop of apply_edits: the buffer spliced by one edit.
apply_edit(text, edit) ==
  CASE edit.kind = "Replace" ->
         Slice(text, 0, edit.start_byte) \o edit.content
           \o Slice(text, edit.end_byte, Len(text))
    [] edit.kind = "Insert" ->
         Slice(text, 0, edit.start_byte) \o edit.content
           \o Slice(text, edit.start_byte, Len(text))
    [] edit.kind = "Remove" ->
         Slice(text, 0, edit.start_byte) \o Slice(text, edit.end_byte, Len(text))

\* ---------------------------------------------------------- JSON Pointer

RECURSIVE replace_all(_, _, _)
\* str.replace(old, new) for a two-character old.
replace_all(t, old, new) ==
  IF Len(t) < 2 THEN t
  ELSE IF SubSeq(t, 1, 2) = old THEN new \o replace_all(SubSeq(t, 3, Len(t)), old, new)
  ELSE <<t[1]>> \o replace_all(Tail(t), old, new)

RECURSIVE replace_char(_, _, _)
\* str.replace(old, new) for a one-character old.
replace_char(t, old, new) ==
  IF Len(t) = 0 THEN t
  ELSE (IF t[1] = old THEN new ELSE <<t[1]>>) \o replace_char(Tail(t), old, new)

unescape_part(part) == replace_all(replace_all(part, <<"~", "1">>, <<"/">>), <<"~", "0">>, <<"~">>)

escape_part(part) == replace_char(replace_char(part, "~", <<"~", "0">>), "/", <<"~", "1">>)

\* JSONPointer.parse(str): <<"pointer", parts>>, or ValueError for a text
\* that does not start with "/".
JSONPointer_parse(str) ==
  LET pieces == Tail(Split(str, "/"))
  IN IF ~StartsWith(str, <<"/">>) THEN Raised("ValueError")
     ELSE <<"pointer", [i \in 1..Len(pieces) |-> unescape_part(pieces[i])]>>

\* JSONPointer.__str__
JSONPointer_str(parts) ==
  <<"/">> \o Join([i \in 1..Len(parts) |-> escape_part(parts[i])], <<"/">>)

\* JSONPatchOperation.from_json(value): <<"operation", op>> for the first
\* mapping pattern the object matches (a pattern names the members it needs
\* and lets any other through), or ValueError.
from_json(data) ==
  LET has(k) == IsMap(data) /\ HasKey(data[2], k)
      get(k) == Lookup(data[2], k)
      str(k) == has(k) /\ IsStr(get(k))
      op(name) == has(<<"o", "p">>) /\ get(<<"o", "p">>) = JStr(name)
      path == JSONPointer_parse(get(<<"p", "a", "t", "h">>)[2])
      from_ == JSONPointer_parse(get(<<"f", "r", "o", "m">>)[2])
      value == get(<<"v", "a", "l", "u", "e">>)
      with_path == str(<<"p", "a", "t", "h">>)
      with_value == with_path /\ has(<<"v", "a", "l", "u", "e">>)
      with_from == with_path /\ str(<<"f", "r", "o", "m">>)
      at_path(operation) == IF IsRaised(path) THEN path ELSE <<"operation", operation>>
      from_to(operation) == IF IsRaised(from_) THEN from_ ELSE at_path(operation)
  IN IF op(<<"a", "d", "d">>) /\ with_value
       THEN at_path(JSONPatchAdd(path[2], value))
     ELSE IF op(<<"r", "e", "m", "o", "v", "e">>) /\ with_path
       THEN at_path(JSONPatchRemove(path[2]))
     ELSE IF op(<<"r", "e", "p", "l", "a", "c", "e">>) /\ with_value
       THEN at_path(JSONPatchReplace(path[2], value))
     ELSE IF op(<<"m", "o", "v", "e">>) /\ with_from
       THEN from_to(JSONPatchMove(from_[2], path[2]))
     ELSE IF op(<<"c", "o", "p", "y">>) /\ with_from
       THEN from_to(JSONPatchCopy(from_[2], path[2]))
     ELSE IF op(<<"t", "e", "s", "t">>) /\ with_value
       THEN at_path(JSONPatchTest(path[2], value))
     ELSE Raised("ValueError")

\* ------------------------------------------------------ command line
\* A float is carried as its number of tenths: 1.5 is <<"float", 15>>.
JFloat(tenths) == <<"float", tenths>>

\* The texts of the model that float() accepts: an integer, or an integer
\* with one decimal digit.
IsFloatText(t) ==
  \/ IsIntText(t)
  \/ Len(t) > 2 /\ t[Len(t) - 1] = "." /\ IsDigit(t[Len(t)])
       /\ IsIntText(SubSeq(t, 1, Len(t) - 2))

\* float(t); defined where IsFloatText(t).
FloatValue(t) ==
  IF IsIntText(t) THEN JFloat(10 * IntValue(t))
  ELSE JFloat(10 * IntValue(SubSeq(t, 1, Len(t) - 2))
                + (IF t[1] = "-" THEN 0 - DigitValue(t[Len(t)]) ELSE DigitValue(t[Len(t)])))

\* A JSON number has no "+" and no leading zero.
IsJsonNumber(t) ==
  LET digits == IF Len(t) > 0 /\ t[1] = "-" THEN Tail(t) ELSE t
      whole == IF IndexFrom(digits, ".", 1) = 0 THEN digits
               ELSE SubSeq(digits, 1, IndexFrom(digits, ".", 1) - 1)
  IN IsFloatText(t) /\ IsNatText(whole) /\ (Len(whole) = 1 \/ whole[1] # "0")

\* json.loads(text), for the texts of the model: a JSON scalar (a string
\* without escapes) or an empty collection; any other text is no JSON.
json_loads(t) ==
  IF t = <<"n", "u", "l", "l">> THEN JNull
  ELSE IF t = <<"t", "r", "u", "e">> THEN JBool(TRUE)
  ELSE IF t = <<"f", "a", "l", "s", "e">> THEN JBool(FALSE)
  ELSE IF IsJsonNumber(t) THEN (IF IsIntText(t) THEN JInt(IntValue(t)) ELSE FloatValue(t))
  ELSE IF Len(t) >= 2 /\ t[1] = DQ /\ t[Len(t)] = DQ
          /\ \A i \in 2..(Len(t) - 1) : t[i] \notin {DQ, "\\"}
    THEN JStr(SubSeq(t, 2, Len(t) - 1))
  ELSE IF t = <<"[", "]">> THEN JList(<<>>)
  ELSE IF t = <<"{", "}">> THEN JMap(<<>>)
  ELSE Raised("JSONDecodeError")

PrefixString == <<"s", "t", "r", "i", "n", "g">>
PrefixInt == <<"i", "n", "t">>
PrefixFloat == <<"f", "l", "o", "a", "t">>
PrefixBool == <<"b", "o", "o", "l">>
PrefixJson == <<"j", "s", "o", "n">>

\* The keys of value_parsers, in the order of the dict.
value_prefixes == <<PrefixString, PrefixInt, PrefixFloat, PrefixBool, PrefixJson>>

\* value_parsers[prefix](t): str, int, float, bool and json_loads.
parse_value_as(prefix, t) ==
  IF prefix = PrefixString THEN JStr(t)
  ELSE IF prefix = PrefixInt
    THEN (IF IsIntText(t) THEN JInt(IntValue(t)) ELSE Raised("ValueError"))
  ELSE IF prefix = PrefixFloat
    THEN (IF IsFloatText(t) THEN FloatValue(t) ELSE Raised("ValueError"))
  ELSE IF prefix = PrefixBool THEN JBool(Len(t) > 0)
  ELSE json_loads(t)

\* The loop of parse_value from the i-th prefix on.
RECURSIVE parse_value_from(_, _)
parse_value_from(v, i) ==
  IF i > Len(value_prefixes) THEN json_loads(v)
  ELSE IF StartsWith(v, value_prefixes[i] \o <<":">>)
    THEN parse_value_as(value_prefixes[i], SubSeq(v, Len(value_prefixes[i]) + 2, Len(v)))
  ELSE parse_value_from(v, i + 1)

parse_value(v) == parse_value_from(v, 1)

\* ------------------------------------------------- oracles of the tests
\* The tests build a source with `dumps` (the canonical block-style dump),
\* read texts back with `loads` and compute the expected value with the
\* reference JSON Patch implementation.

\* The text the canonical dump writes for a scalar: a string that would read
\* back as another scalar, or as no plain scalar at all, is single-quoted.
dumps_scalar(value) ==
  LET t == value[2]
      plain == /\ Len(t) > 0
               /\ PlainType(t) = "string_scalar"
               /\ ~IsBlank(t[1]) /\ ~IsBlank(t[Len(t)])
               /\ t[1] \notin FlowIndicators \union {"-", "?", ":", ","}
               /\ ~HasPair(t, ":", SP) /\ ~HasPair(t, SP, "#")
               /\ t[Len(t)] # ":"
  IN IF IsStr(value) THEN
       IF plain THEN t ELSE <<"'">> \o replace_char(t, "'", <<"'", "'">>) \o <<"'">>
     ELSE IF value = JNull THEN <<>>
     ELSE json_dumps(value)

RECURSIVE dumps_block(_)
RECURSIVE dumps_items(_)
RECURSIVE dumps_pairs(_)

dumps_items(items) ==
  LET value == items[1]
      one == IF (IsList(value) \/ IsMap(value)) /\ Len(value[2]) > 0
               THEN <<"-", SP>> \o indent_block(dumps_block(value), default_indentation)
             ELSE IF value = JNull THEN <<"-">>
             ELSE <<"-", SP>> \o dumps_block(value)
  IN IF Len(items) = 0 THEN <<>> ELSE <<one>> \o dumps_items(Tail(items))

dumps_pairs(pairs) ==
  LET key == dumps_scalar(JStr(pairs[1][1]))
      value == pairs[1][2]
      one == IF IsList(value) /\ Len(value[2]) > 0
               THEN key \o <<":", NL>> \o dumps_block(value)
             ELSE IF IsMap(value) /\ Len(value[2]) > 0
               THEN key \o <<":", NL>> \o indent(dumps_block(value), default_indentation)
             ELSE IF value = JNull THEN key \o <<":">>
             ELSE key \o <<":", SP>> \o dumps_block(value)
  IN IF Len(pairs) = 0 THEN <<>> ELSE <<one>> \o dumps_pairs(Tail(pairs))

dumps_block(value) ==
  IF IsList(value) THEN
    IF Len(value[2]) = 0 THEN <<"[", "]">> ELSE Join(dumps_items(value[2]), <<NL>>)
  ELSE IF IsMap(value) THEN
    IF Len(value[2]) = 0 THEN <<"{", "}">> ELSE Join(dumps_pairs(value[2]), <<NL>>)
  ELSE dumps_scalar(value)

\* dumps(data) of the tests, for a list or a mapping as the root.
dumps(data) == dumps_block(data) \o <<NL>>

RECURSIVE load_node(_, _)
RECURSIVE load_items(_, _)
RECURSIVE load_pairs(_, _)

load_items(T, items) ==
  IF Len(items) = 0 THEN <<>>
  ELSE <<load_node(T, items[1])>> \o load_items(T, Tail(items))

load_pairs(T, pairs) ==
  IF Len(pairs) = 0 THEN <<>>
  ELSE << <<load_node(T, child_by_field_name(pairs[1], "key")),
            load_node(T, child_by_field_name(pairs[1], "value"))>> >>
         \o load_pairs(T, Tail(pairs))

\* The value a YAML loader reads from a node: as parse_node reads it, but an
\* absent value is null, text that is no YAML raises, and so does a mapping
\* with a key written twice.
load_node(T, node) ==
  LET named == named_children(node)
      items(types) == load_items(T, SelectKids(node.kids, types))
      pairs(types) == load_pairs(T, SelectKids(node.kids, types))
      keyed(types) == KeyedPairs(pairs(types))
      list(types) == IF FirstRaised(items(types)) # JNull THEN FirstRaised(items(types))
                     ELSE JList(items(types))
      map(types) == IF FirstRaised(Flatten(pairs(types))) # JNull
                      THEN FirstRaised(Flatten(pairs(types)))
                    ELSE IF \E i, j \in 1..Len(keyed(types)) :
                              i < j /\ keyed(types)[i][1] = keyed(types)[j][1]
                      THEN Raised("YAMLError")
                    ELSE JMap(keyed(types))
  IN CASE node.type = "none" -> JNull
       [] node.type = "ERROR" -> Raised("YAMLError")
       [] node.type = "block_mapping" -> map({"block_mapping_pair"})
       [] node.type = "block_sequence" -> list({"block_sequence_item"})
       [] node.type = "flow_mapping" -> map({"flow_pair"})
       [] node.type = "flow_sequence" ->
            IF \E i \in 1..Len(named) : named[i].type = "ERROR" THEN Raised("YAMLError")
            ELSE list({"flow_node"})
       [] node.type \in {"document", "stream", "block_node", "flow_node", "flow_scalar",
                         "plain_scalar", "block_sequence_item"} ->
            IF Len(named) = 0 THEN JNull
            ELSE IF \E i \in 1..Len(named) : named[i].type = "ERROR" THEN Raised("YAMLError")
            ELSE load_node(T, named[1])
       [] OTHER -> parse_node(T, node)

\* loads(data) of the tests.
loads(data) == load_node(data, ParseTree(data))

\* The reference JSON Patch (RFC 6902) on JSON values.  A sequence index is
\* a decimal numeral without sign; "-" names the end of a sequence for add.
ref_index(segment) == IF IsNatText(segment) THEN NatValue(segment) ELSE -1

RemoveAt(seq, i) == SubSeq(seq, 1, i - 1) \o SubSeq(seq, i + 1, Len(seq))

InsertAt(seq, i, x) == SubSeq(seq, 1, i - 1) \o <<x>> \o SubSeq(seq, i, Len(seq))

KeyIndex(pairs, key) == CHOOSE i \in 1..Len(pairs) : pairs[i][1] = key

RECURSIVE ref_get(_, _)
ref_get(doc, path) ==
  LET segment == path[1]
      index == ref_index(segment)
  IN IF Len(path) = 0 THEN doc
     ELSE IF IsMap(doc) /\ HasKey(doc[2], segment)
       THEN ref_get(Lookup(doc[2], segment), Tail(path))
     ELSE IF IsList(doc) /\ index >= 0 /\ index < Len(doc[2])
       THEN ref_get(doc[2][index + 1], Tail(path))
     ELSE Raised("JsonPointerException")

\* One of add, remove and replace applied at path.
RECURSIVE ref_edit(_, _, _, _)
ref_edit(doc, path, op, value) ==
  LET segment == path[1]
      index == ref_index(segment)
      pairs == doc[2]
      at == KeyIndex(pairs, segment)
      inner == IF IsMap(doc) THEN ref_edit(pairs[at][2], Tail(path), op, value)
               ELSE ref_edit(doc[2][index + 1], Tail(path), op, value)
      leaf ==
        IF IsMap(doc) THEN
          IF op = "add" THEN
            IF HasKey(pairs, segment)
              THEN JMap([pairs EXCEPT ![at] = <<segment, value>>])
            ELSE JMap(Append(pairs, <<segment, value>>))
          ELSE IF ~HasKey(pairs, segment) THEN Raised("JsonPatchConflict")
          ELSE IF op = "remove" THEN JMap(RemoveAt(pairs, at))
          ELSE JMap([pairs EXCEPT ![at] = <<segment, value>>])
        ELSE IF IsList(doc) THEN
          IF op = "add" /\ segment = <<"-">> THEN JList(Append(doc[2], value))
          ELSE IF op = "add" /\ index >= 0 /\ index <= Len(doc[2])
            THEN JList(InsertAt(doc[2], index + 1, value))
          ELSE IF index < 0 \/ index >= Len(doc[2]) THEN Raised("JsonPatchConflict")
          ELSE IF op = "remove" THEN JList(RemoveAt(doc[2], index + 1))
          ELSE JList([doc[2] EXCEPT ![index + 1] = value])
        ELSE Raised("JsonPatchConflict")
  IN IF Len(path) = 0 THEN (IF op = "remove" THEN Raised("JsonPatchConflict") ELSE value)
     ELSE IF Len(path) = 1 THEN leaf
     ELSE IF IsMap(doc) /\ HasKey(pairs, segment) THEN
       IF IsRaised(inner) THEN inner ELSE JMap([pairs EXCEPT ![at] = <<segment, inner>>])
     ELSE IF IsList(doc) /\ index >= 0 /\ index < Len(doc[2]) THEN
       IF IsRaised(inner) THEN inner ELSE JList([doc[2] EXCEPT ![index + 1] = inner])
     ELSE Raised("JsonPointerException")

\* One operation of a patch applied to a JSON value.
ref_apply_operation(doc, operation) ==
  LET source == ref_get(doc, operation.from)
      removed == ref_edit(doc, operation.from, "remove", JNull)
      found == ref_get(doc, operation.path)
  IN CASE operation.op \in {"add", "remove", "replace"} ->
            ref_edit(doc, operation.path, operation.op, operation.value)
       [] operation.op = "move" ->
            IF IsRaised(source) THEN source
            ELSE IF IsRaised(removed) THEN removed
            ELSE ref_edit(removed, operation.path, "add", source)
       [] operation.op = "copy" ->
            IF IsRaised(source) THEN source
            ELSE ref_edit(doc, operation.path, "add", source)
       [] operation.op = "test" ->
            IF IsRaised(found) THEN found
            ELSE IF JsonEq(found, operation.value) THEN doc
            ELSE Raised("JsonPatchTestFailed")
       [] OTHER -> Raised("InvalidJsonPatch")

\* jsonpatch.apply_patch(doc, patch): the operations applied in order, each
\* to the result of the one before it.
RECURSIVE ref_apply_patch(_, _)
ref_apply_patch(doc, patch) ==
  IF Len(patch) = 0 \/ IsRaised(doc) THEN doc
  ELSE ref_apply_patch(ref_apply_operation(doc, patch[1]), Tail(patch))

\* insert_inline_comment(source, comment) of the tests:
\* source.replace("\n", f" # {comment}\n", 1)
insert_inline_comment(source, comment) ==
  LET i == IndexFrom(source, NL, 1)
  IN IF i = 0 THEN source
     ELSE SubSeq(source, 1, i - 1) \o <<SP, "#", SP>> \o comment
            \o SubSeq(source, i, Len(source))

\* ------------------------------------------------------------ the pipeline

\* edit_patch(root, patch_operations): the edits of every operation in patch
\* order, each operation compiled against the tree of the source as given.
\* The generator stops at the first operation that raises.
RECURSIVE edit_patch(_, _, _)
edit_patch(T, tree, operations) ==
  LET first == edit_patch_operation(T, tree, operations[1])
      rest == edit_patch(T, tree, Tail(operations))
  IN IF Len(operations) = 0 THEN Edits(<<>>)
     ELSE IF IsRaised(first) THEN first
     ELSE IF IsRaised(rest) THEN rest
     ELSE Edits(first[2] \o rest[2])

RECURSIVE splice_all(_, _)
splice_all(text, sorted) ==
  IF Len(sorted) = 0 THEN text ELSE splice_all(apply_edit(text, sorted[1]), Tail(sorted))

\* apply_edits(document, edits): the edits sorted, then spliced in turn.
apply_edits(text, list) == splice_all(text, sort_edits(list))

\* apply_patch(content, patch_operations): <<"text", new content>>, or the
\* exception raised.
apply_patch(source, operations) ==
  LET compiled_edits == edit_patch(source, ParseTree(source), operations)
  IN IF IsRaised(compiled_edits) THEN compiled_edits
     ELSE <<"text", apply_edits(source, compiled_edits[2])>>

\* ------------------------------------------------------------------ inputs

MaxPatchLen == 2
MaxEdits == 2
MaxBufferLen == 3
MaxPointerLen == 3

a_key == <<"a">>
b_key == <<"b">>

\* {"a": 1}, {"a": 1, "b": 2}, {"a": [1, 2]}, {"a": {"b": 1}}, {"a": []}
RootScalar == JMap(<< <<a_key, JInt(1)>> >>)
RootTwoKeys == JMap(<< <<a_key, JInt(1)>>, <<b_key, JInt(2)>> >>)
RootSequence == JMap(<< <<a_key, JList(<<JInt(1), JInt(2)>>)>> >>)
RootMapping == JMap(<< <<a_key, JMap(<< <<b_key, JInt(1)>> >>)>> >>)
RootFlow == JMap(<< <<a_key, JList(<<>>)>> >>)

Roots == {RootScalar, RootTwoKeys, RootSequence, RootMapping, RootFlow}

Values == {JInt(3), JStr(<<"1">>)}

AddPaths == {<<b_key>>, <<a_key, <<"-">>>>, <<a_key, <<"0">>>>}
ReplacePaths == {<<a_key>>, <<b_key>>, <<a_key, <<"0">>>>}
RemovePaths == {<<a_key>>, <<b_key>>, <<a_key, <<"1">>>>}
TestPaths == {<<a_key>>, <<a_key, <<"5">>>>, <<a_key, <<"x">>>>}
TestValues == {JInt(1), JInt(3)}
MovePaths == {<<a_key>>, <<b_key>>}

Operations ==
  {JSONPatchAdd(path, value) : path \in AddPaths, value \in Values}
    \union {JSONPatchReplace(path, value) : path \in ReplacePaths, value \in Values}
    \union {JSONPatchRemove(path) : path \in RemovePaths}
    \union {JSONPatchTest(path, value) : path \in TestPaths, value \in TestValues}
    \union {JSONPatchMove(from_, path) : from_ \in MovePaths, path \in MovePaths}
    \union {JSONPatchCopy(from_, path) : from_ \in MovePaths, path \in MovePaths}

Patches == UNION {[1..n -> Operations] : n \in 0..MaxPatchLen}

Buffer == SubSeq(<<"a", "b", "c", "d", "e", "f">>, 1, MaxBufferLen)

EditContents == {<<"X">>, <<"Y">>}

EditSet ==
  {Insert(at, c) : at \in 0..MaxBufferLen, c \in EditContents}
    \union {Replace(from, to, c) : from \in 0..MaxBufferLen, to \in 0..MaxBufferLen,
                                   c \in EditContents}
    \union {Remove(from, to) : from \in 0..MaxBufferLen, to \in 0..MaxBufferLen}

EditLists ==
  UNION {[1..n -> {e \in EditSet : e.start_byte <= e.end_byte}] : n \in 0..MaxEdits}

\* {"a": [1]}
RootItem == JMap(<< <<a_key, JList(<<JInt(1)>>)>> >>)

CommentText == <<"c">>

\* The sources of the tests: the canonical dump of a root, as it is and with
\* an inline comment on its first line.
Sources ==
  {dumps(root) : root \in Roots \union {RootItem}}
    \union {insert_inline_comment(dumps(root), CommentText) : root \in Roots \union {RootItem}}

SingleOperations ==
  Operations
    \union {JSONPatchReplace(<<a_key, b_key>>, value) : value \in Values}
    \union {JSONPatchReplace(<<a_key>>, RootScalar)}
    \union {JSONPatchMove(from_, path) :
              from_ \in {<<a_key, <<"0">>>>, <<a_key, <<"1">>>>, <<a_key, b_key>>},
              path \in {<<a_key, <<"0">>>>, <<a_key, <<"1">>>>, <<a_key, <<"-">>>>,
                        <<a_key, b_key>>, <<b_key>>}}
    \union {JSONPatchRemove(path) : path \in {<<a_key, b_key>>, <<a_key, <<"0">>>>}}

MaxListLen == 2

Scalars ==
  {JNull, JBool(TRUE), JBool(FALSE), JInt(0), JInt(3), JInt(-1), JStr(<<"x">>),
   JStr(<<"1">>), JStr(<<"t", "r", "u", "e">>), JStr(<<>>)}

ScalarLists == {JList(items) : items \in UNION {[1..n -> Scalars] : n \in 0..MaxListLen}}

\* The JSON values handed to the serializer: scalars, lists of scalars, and
\* mappings and lists that nest them one level deep.
JsonValues ==
  Scalars \union ScalarLists
    \union {JMap(<<>>)}
    \union {JMap(<< <<a_key, v>> >>) : v \in Scalars \union {JList(<<>>), JMap(<<>>)}}
    \union {JMap(<< <<a_key, v>>, <<b_key, w>> >>) : v \in Scalars, w \in {JInt(3), JStr(<<"x">>)}}
    \union {JMap(<< <<a_key, JList(<<v>>)>> >>) : v \in Scalars}
    \union {JList(<<JMap(<< <<a_key, v>> >>)>>) : v \in Scalars}
    \union {JList(<<JList(<<v>>), w>>) : v \in Scalars, w \in {JInt(3)}}
    \union {JMap(<< <<a_key, JMap(<< <<b_key, v>> >>)>> >>) : v \in Scalars}

OpNames ==
  {<<"a", "d", "d">>, <<"r", "e", "m", "o", "v", "e">>, <<"r", "e", "p", "l", "a", "c", "e">>,
   <<"m", "o", "v", "e">>, <<"c", "o", "p", "y">>, <<"t", "e", "s", "t">>, <<"x">>}

\* The members an object may hold under a key: none, or one of the values.
Member(key, values) == {<<>>} \union {<< <<key, v>> >> : v \in values}

\* The objects handed to from_json, and a value that is no object.
PatchObjects ==
  {JMap(op \o path \o from_ \o val) :
     op \in Member(<<"o", "p">>, {JStr(name) : name \in OpNames}),
     path \in Member(<<"p", "a", "t", "h">>,
                     {JStr(<<"/", "a">>), JStr(<<"/", "a", "/", "0">>), JStr(<<>>),
                      JStr(<<"a">>), JInt(0)}),
     from_ \in Member(<<"f", "r", "o", "m">>, {JStr(<<"/", "b">>), JStr(<<>>), JInt(0)}),
     val \in Member(<<"v", "a", "l", "u", "e">>, {JInt(1), JNull})}
    \union {JInt(1)}

NumCalls == 2

\* The arguments of the invocations that run side by side.
CallArguments ==
  {[content |-> dumps(root), operation |-> operation] :
     root \in {RootScalar, RootTwoKeys},
     operation \in {JSONPatchReplace(<<a_key>>, JInt(3)), JSONPatchRemove(<<b_key>>)}}

PointerAlphabet == {"/", "~", "0", "1", "a"}

PointerTexts == UNION {[1..n -> PointerAlphabet] : n \in 0..MaxPointerLen}

\* --------------------------------------------------------- state machine

VARIABLES content, patch_operations, pc, tree, compiled, edits, queue, text,
          result, raised, pointer_text, pointer, value, parsers, calls

vars == <<content, patch_operations, pc, tree, compiled, edits, queue, text,
          result, raised, pointer_text, pointer, value, parsers, calls>>

NoResult == <<"none">>

\* The Parser objects made so far, numbered in the order of their creation,
\* and the one the cache of get_parser holds for "yaml" (0 for none).
NoParsers == [created |-> 0, cached |-> 0]

\* apply_patch(content, patch_operations) is called on a canonical source.
Init ==
  /\ \E root \in Roots : content = dumps(root)
  /\ patch_operations \in Patches
  /\ pc = "parse"
  /\ tree = NoNode
  /\ compiled = 0
  /\ edits = <<>>
  /\ queue = <<>>
  /\ text = content
  /\ result = NoResult
  /\ raised = ""
  /\ pointer_text = <<>>
  /\ pointer = NoResult
  /\ value = JNull
  /\ parsers = NoParsers
  /\ calls = <<>>

\* YAMLDocument.parse(content)
DocumentParse ==
  /\ pc = "parse"
  /\ tree' = ParseTree(content)
  /\ pc' = "compile"
  /\ UNCHANGED <<content, patch_operations, compiled, edits, queue, text, result,
                 raised, pointer_text, pointer, value, parsers,
                 calls>>

\* A compiler that splices the edits of each operation into the bytes as
\* soon as the operation has yielded them.
CompileOperationEager ==
  /\ pc = "compile"
  /\ compiled < Len(patch_operations)
  /\ LET resume(yielded) ==
           IF IsRaised(yielded)
             THEN /\ pc' = "raised"
                  /\ raised' = yielded[2]
                  /\ UNCHANGED <<compiled, edits, text>>
           ELSE /\ edits' = edits \o yielded[2]
                /\ text' = apply_edits(text, yielded[2])
                /\ compiled' = compiled + 1
                /\ UNCHANGED <<pc, raised>>
     IN resume(edit_patch_operation(content, tree, patch_operations[compiled + 1]))
  /\ UNCHANGED <<content, patch_operations, tree, queue, result, pointer_text, pointer,
                 value, parsers, calls>>

\* list(edits) in apply_edits pulls the edits of the next operation out of
\* edit_patch; an exception ends apply_patch with the list dropped.
CompileOperation ==
  /\ pc = "compile"
  /\ compiled < Len(patch_operations)
  /\ LET resume(yielded) ==
           IF IsRaised(yielded)
             THEN /\ pc' = "raised"
                  /\ raised' = yielded[2]
                  /\ UNCHANGED <<compiled, edits>>
           ELSE /\ edits' = edits \o yielded[2]
                /\ compiled' = compiled + 1
                /\ UNCHANGED <<pc, raised>>
     IN resume(edit_patch_operation(content, tree, patch_operations[compiled + 1]))
  /\ UNCHANGED <<content, patch_operations, tree, queue, text, result, pointer_text,
                 pointer, value, parsers, calls>>

\* edits.sort(key=..., reverse=True), once the generator is exhausted.
SortEdits ==
  /\ pc = "compile"
  /\ compiled = Len(patch_operations)
  /\ queue' = sort_edits(edits)
  /\ pc' = "apply"
  /\ UNCHANGED <<content, patch_operations, tree, compiled, edits, text, result,
                 raised, pointer_text, pointer, value, parsers,
                 calls>>

\* One turn of the loop over the sorted edits.
ApplyEdit ==
  /\ pc = "apply"
  /\ Len(queue) > 0
  /\ text' = apply_edit(text, Head(queue))
  /\ queue' = Tail(queue)
  /\ UNCHANGED <<content, patch_operations, pc, tree, compiled, edits, result, raised,
                 pointer_text, pointer, value, parsers, calls>>

\* return text.decode(): the loop is over.
Return ==
  /\ pc = "apply"
  /\ Len(queue) = 0
  /\ result' = <<"text", text>>
  /\ pc' = "returned"
  /\ UNCHANGED <<content, patch_operations, tree, compiled, edits, queue, text,
                 raised, pointer_text, pointer, value, parsers,
                 calls>>

Next == DocumentParse \/ CompileOperation \/ SortEdits \/ ApplyEdit \/ Return

Spec == Init /\ [][Next]_vars

\* apply_edits called on its own, with any buffer and any list of edits.
InitEdits ==
  /\ content = Buffer
  /\ patch_operations = <<>>
  /\ pc = "compile"
  /\ tree = NoNode
  /\ compiled = 0
  /\ edits \in EditLists
  /\ queue = <<>>
  /\ text = content
  /\ result = NoResult
  /\ raised = ""
  /\ pointer_text = <<>>
  /\ pointer = NoResult
  /\ value = JNull
  /\ parsers = NoParsers
  /\ calls = <<>>

NextEdits == SortEdits \/ ApplyEdit \/ Return

SpecEdits == InitEdits /\ [][NextEdits]_vars

\* JSONPointer.parse called on any text.
InitPointer ==
  /\ content = <<>>
  /\ patch_operations = <<>>
  /\ pc = "pointer"
  /\ tree = NoNode
  /\ compiled = 0
  /\ edits = <<>>
  /\ queue = <<>>
  /\ text = <<>>
  /\ result = NoResult
  /\ raised = ""
  /\ pointer_text \in PointerTexts
  /\ pointer = NoResult
  /\ value = JNull
  /\ parsers = NoParsers
  /\ calls = <<>>

ParsePointer ==
  /\ pc = "pointer"
  /\ LET parsed == JSONPointer_parse(pointer_text)
     IN IF IsRaised(parsed)
          THEN pc' = "raised" /\ raised' = parsed[2] /\ UNCHANGED pointer
        ELSE pc' = "parsed" /\ pointer' = parsed /\ UNCHANGED raised
  /\ UNCHANGED <<content, patch_operations, tree, compiled, edits, queue, text,
                 result, pointer_text, value, parsers, calls>>

NextPointer == ParsePointer

SpecPointer == InitPointer /\ [][NextPointer]_vars

\* apply_patch called with one operation on a source of the tests.
InitSingle ==
  /\ content \in Sources
  /\ \E operation \in SingleOperations : patch_operations = <<operation>>
  /\ pc = "parse"
  /\ tree = NoNode
  /\ compiled = 0
  /\ edits = <<>>
  /\ queue = <<>>
  /\ text = content
  /\ result = NoResult
  /\ raised = ""
  /\ pointer_text = <<>>
  /\ pointer = NoResult
  /\ value = JNull
  /\ parsers = NoParsers
  /\ calls = <<>>

SpecSingle == InitSingle /\ [][Next]_vars

\* stringify_block and parse_node called one after the other on any value.
InitRoundTrip ==
  /\ content = <<>>
  /\ patch_operations = <<>>
  /\ pc = "stringify"
  /\ tree = NoNode
  /\ compiled = 0
  /\ edits = <<>>
  /\ queue = <<>>
  /\ text = <<>>
  /\ result = NoResult
  /\ raised = ""
  /\ pointer_text = <<>>
  /\ pointer = NoResult
  /\ value \in JsonValues
  /\ parsers = NoParsers
  /\ calls = <<>>

\* stringify_block(value) + "\n"
StringifyValue ==
  /\ pc = "stringify"
  /\ IF stringify_block_raises(value)
       THEN pc' = "raised" /\ raised' = "IndexError" /\ UNCHANGED content
     ELSE pc' = "read" /\ content' = stringify_block(value) \o <<NL>> /\ UNCHANGED raised
  /\ UNCHANGED <<patch_operations, tree, compiled, edits, queue, text, result,
                 pointer_text, pointer, value, parsers, calls>>

\* parse_node(Document.parse(content).tree.root_node)
ReadBack ==
  /\ pc = "read"
  /\ tree' = ParseTree(content)
  /\ With(parse_node(content, ParseTree(content)), LAMBDA read :
         IF IsRaised(read)
           THEN pc' = "raised" /\ raised' = read[2] /\ UNCHANGED result
         ELSE pc' = "read_back" /\ result' = <<"value", read>> /\ UNCHANGED raised)
  /\ UNCHANGED <<content, patch_operations, compiled, edits, queue, text,
                 pointer_text, pointer, value, parsers, calls>>

NextRoundTrip == StringifyValue \/ ReadBack

SpecRoundTrip == InitRoundTrip /\ [][NextRoundTrip]_vars

\* JSONPatchOperation.from_json called on any object.
InitFromJson ==
  /\ content = <<>>
  /\ patch_operations = <<>>
  /\ pc = "from_json"
  /\ tree = NoNode
  /\ compiled = 0
  /\ edits = <<>>
  /\ queue = <<>>
  /\ text = <<>>
  /\ result = NoResult
  /\ raised = ""
  /\ pointer_text = <<>>
  /\ pointer = NoResult
  /\ value \in PatchObjects
  /\ parsers = NoParsers
  /\ calls = <<>>

FromJson ==
  /\ pc = "from_json"
  /\ IF IsRaised(from_json(value))
       THEN pc' = "raised" /\ raised' = from_json(value)[2] /\ UNCHANGED result
     ELSE pc' = "constructed" /\ result' = from_json(value) /\ UNCHANGED raised
  /\ UNCHANGED <<content, patch_operations, tree, compiled, edits, queue, text,
                 pointer_text, pointer, value, parsers, calls>>

NextFromJson == FromJson

SpecFromJson == InitFromJson /\ [][NextFromJson]_vars

\* NumCalls invocations of apply_patch in one process, their steps
\* interleaved.  An invocation is a record of its arguments, its position
\* and the objects it holds: its parser (the number of a Parser object) and
\* its tree, edits and result.
InitCalls ==
  /\ content = <<>>
  /\ patch_operations = <<>>
  /\ pc = "calls"
  /\ tree = NoNode
  /\ compiled = 0
  /\ edits = <<>>
  /\ queue = <<>>
  /\ text = <<>>
  /\ result = NoResult
  /\ raised = ""
  /\ pointer_text = <<>>
  /\ pointer = NoResult
  /\ value = JNull
  /\ parsers = NoParsers
  /\ calls \in [1..NumCalls ->
                  {[pc |-> "get_parser", content |-> a.content, operation |-> a.operation,
                    parser |-> 0, tree |-> NoNode, edits |-> <<>>, result |-> NoResult] :
                     a \in CallArguments}]

Idle ==
  UNCHANGED <<content, patch_operations, pc, tree, compiled, edits, queue, text, result,
              raised, pointer_text, pointer, value>>

\* A get_parser that makes a Parser of its own for every invocation.
CallGetOwnParser(i) ==
  /\ calls[i].pc = "get_parser"
  /\ parsers.cached # 0
  /\ parsers' = [parsers EXCEPT !.created = parsers.created + 1]
  /\ calls' = [calls EXCEPT ![i].parser = parsers.created + 1, ![i].pc = "parse"]
  /\ Idle

\* get_parser("yaml") with a parser in the cache: lru_cache returns it.
CallGetParser(i) ==
  /\ calls[i].pc = "get_parser"
  /\ parsers.cached # 0
  /\ calls' = [calls EXCEPT ![i].parser = parsers.cached, ![i].pc = "parse"]
  /\ UNCHANGED parsers
  /\ Idle

\* get_parser("yaml") with an empty cache: lru_cache goes on to call the
\* function it wraps.
CallMissParser(i) ==
  /\ calls[i].pc = "get_parser"
  /\ parsers.cached = 0
  /\ calls' = [calls EXCEPT ![i].pc = "create"]
  /\ UNCHANGED parsers
  /\ Idle

\* _get_parser(language="yaml") makes a Parser; lru_cache stores and returns it.
CallCreateParser(i) ==
  /\ calls[i].pc = "create"
  /\ parsers' = [created |-> parsers.created + 1, cached |-> parsers.created + 1]
  /\ calls' = [calls EXCEPT ![i].parser = parsers.created + 1, ![i].pc = "parse"]
  /\ Idle

\* Document.parse_raw: parser.parse(text)
CallParse(i) ==
  /\ calls[i].pc = "parse"
  /\ calls' = [calls EXCEPT ![i].tree = ParseTree(calls[i].content), ![i].pc = "compile"]
  /\ UNCHANGED parsers
  /\ Idle

\* list(edits) in apply_edits, for a patch of one operation.
CallCompile(i) ==
  /\ calls[i].pc = "compile"
  /\ With(edit_patch_operation(calls[i].content, calls[i].tree, calls[i].operation),
          LAMBDA yielded :
            IF IsRaised(yielded)
              THEN calls' = [calls EXCEPT ![i].result = yielded, ![i].pc = "raised"]
            ELSE calls' = [calls EXCEPT ![i].edits = yielded[2], ![i].pc = "apply"])
  /\ UNCHANGED parsers
  /\ Idle

\* The edits are spliced in and the text is returned.
CallReturn(i) ==
  /\ calls[i].pc = "apply"
  /\ calls' = [calls EXCEPT
                 ![i].result = <<"text", apply_edits(calls[i].content, calls[i].edits)>>,
                 ![i].pc = "returned"]
  /\ UNCHANGED parsers
  /\ Idle

NextCalls ==
  \E i \in 1..NumCalls :
    \/ CallGetParser(i)
    \/ CallMissParser(i)
    \/ CallCreateParser(i)
    \/ CallParse(i)
    \/ CallCompile(i)
    \/ CallReturn(i)

SpecCalls == InitCalls /\ [][NextCalls]_vars

\* The texts given as VALUE on the command line: a payload, bare or after
\* a prefix ("x" is no key of value_parsers).
ValuePayloads ==
  { <<"1">>, <<"-", "1">>, <<"0">>, <<"1", ".", "5">>, <<"t", "r", "u", "e">>,
    <<"f", "a", "l", "s", "e">>, <<>>, <<"x">>, <<DQ, "x", DQ>>,
    <<"n", "u", "l", "l">> }

ValueTexts ==
  ValuePayloads
    \cup { prefix \o <<":">> \o payload :
             prefix \in {PrefixString, PrefixInt, PrefixFloat, PrefixBool,
                         PrefixJson, <<"x">>},
             payload \in ValuePayloads }

\* parse_value called on one VALUE of the command line.
InitValue ==
  /\ content \in ValueTexts
  /\ patch_operations = <<>>
  /\ pc = "parse_value"
  /\ tree = NoNode
  /\ compiled = 0
  /\ edits = <<>>
  /\ queue = <<>>
  /\ text = <<>>
  /\ result = NoResult
  /\ raised = ""
  /\ pointer_text = <<>>
  /\ pointer = NoResult
  /\ value = JNull
  /\ parsers = NoParsers
  /\ calls = <<>>

ParseValue ==
  /\ pc = "parse_value"
  /\ IF IsRaised(parse_value(content))
       THEN pc' = "raised" /\ raised' = parse_value(content)[2] /\ UNCHANGED value
     ELSE pc' = "parsed" /\ value' = parse_value(content) /\ UNCHANGED raised
  /\ UNCHANGED <<content, patch_operations, tree, compiled, edits, queue, text,
                 result, pointer_text, pointer, parsers, calls>>

NextValue == ParseValue

SpecValue == InitValue /\ [][NextValue]_vars

MaxItems == 3

\* The sequence 1, 2, ... n.
CountTo(n) == JList([k \in 1..n |-> JInt(k)])

\* Segments that are an index of a sequence of up to MaxItems items, and
\* segments that are none.
Segments ==
  {IntText(i) : i \in (0 - MaxItems - 1)..MaxItems} \union {<<"-">>, <<"x">>, <<>>}

\* get_node_by_path called with a path that ends in a block sequence, at the
\* root or under the key a.
InitResolve ==
  /\ \E n \in 1..MaxItems, segment \in Segments :
       \/ content = dumps(CountTo(n)) /\ pointer = <<segment>>
       \/ content = dumps(JMap(<< <<a_key, CountTo(n)>> >>)) /\ pointer = <<a_key, segment>>
  /\ patch_operations = <<>>
  /\ pc = "parse"
  /\ tree = NoNode
  /\ compiled = 0
  /\ edits = <<>>
  /\ queue = <<>>
  /\ text = content
  /\ result = NoResult
  /\ raised = ""
  /\ pointer_text = <<>>
  /\ value = JNull
  /\ parsers = NoParsers
  /\ calls = <<>>

GetNodeByPath ==
  /\ pc = "compile"
  /\ IF IsRaised(get_node_by_path(content, tree, pointer))
       THEN pc' = "raised" /\ raised' = get_node_by_path(content, tree, pointer)[2]
            /\ UNCHANGED result
     ELSE pc' = "returned" /\ result' = get_node_by_path(content, tree, pointer)
          /\ UNCHANGED raised
  /\ UNCHANGED <<content, patch_operations, tree, compiled, edits, queue, text,
                 pointer_text, pointer, value, parsers, calls>>

NextResolve == DocumentParse \/ GetNodeByPath

SpecResolve == InitResolve /\ [][NextResolve]_vars

AddedValues == {JInt(9), JStr(<<"x">>)}

\* apply_patch called with one add into a block sequence, at the root or
\* under the key a.
InitAdd ==
  /\ \E n \in 1..MaxItems, segment \in Segments, added \in AddedValues :
       \/ /\ content = dumps(CountTo(n))
          /\ patch_operations = <<JSONPatchAdd(<<segment>>, added)>>
       \/ /\ content = dumps(JMap(<< <<a_key, CountTo(n)>> >>))
          /\ patch_operations = <<JSONPatchAdd(<<a_key, segment>>, added)>>
  /\ pc = "parse"
  /\ tree = NoNode
  /\ compiled = 0
  /\ edits = <<>>
  /\ queue = <<>>
  /\ text = content
  /\ result = NoResult
  /\ raised = ""
  /\ pointer_text = <<>>
  /\ pointer = NoResult
  /\ value = JNull
  /\ parsers = NoParsers
  /\ calls = <<>>

SpecAdd == InitAdd /\ [][Next]_vars

\* The flow sequence [1, 2, ... n] as it is written.
FlowText(n) == <<"[">> \o Join([k \in 1..n |-> NatText(k)], <<",", SP>>) \o <<"]">>

\* apply_patch called with one add into a flow sequence, at the root or
\* under the key a.
InitFlowAdd ==
  /\ \E n \in 0..MaxItems, segment \in Segments, added \in AddedValues :
       \/ /\ content = FlowText(n) \o <<NL>>
          /\ patch_operations = <<JSONPatchAdd(<<segment>>, added)>>
       \/ /\ content = <<"a", ":", SP>> \o FlowText(n) \o <<NL>>
          /\ patch_operations = <<JSONPatchAdd(<<a_key, segment>>, added)>>
  /\ pc = "parse"
  /\ tree = NoNode
  /\ compiled = 0
  /\ edits = <<>>
  /\ queue = <<>>
  /\ text = content
  /\ result = NoResult
  /\ raised = ""
  /\ pointer_text = <<>>
  /\ pointer = NoResult
  /\ value = JNull
  /\ parsers = NoParsers
  /\ calls = <<>>

SpecFlowAdd == InitFlowAdd /\ [][Next]_vars

\* Strings of every case of the serializer: ending in a newline, holding a
\* newline, holding a double quote, and holding both.
CaseStrings ==
  {JStr(<<"x", NL>>), JStr(<<"x", NL, "y">>), JStr(<<NL>>), JStr(<<DQ>>),
   JStr(<<"x", DQ>>), JStr(<<DQ, NL>>), JStr(<<DQ, NL, "x">>)}

\* stringify_block_sequence_item or stringify_block_mapping_pair called on
\* any value.
InitSerialize ==
  /\ content = <<>>
  /\ patch_operations = <<>>
  /\ pc = "serialize"
  /\ tree = NoNode
  /\ compiled = 0
  /\ edits = <<>>
  /\ queue = <<>>
  /\ text = <<>>
  /\ result = NoResult
  /\ raised = ""
  /\ pointer_text = <<>>
  /\ pointer = NoResult
  /\ value \in JsonValues \union CaseStrings
  /\ parsers = NoParsers
  /\ calls = <<>>

\* stringify_block_sequence_item(value)
StringifyItem ==
  /\ pc = "serialize"
  /\ IF stringify_raises(value)
       THEN pc' = "raised" /\ raised' = "IndexError" /\ UNCHANGED content
     ELSE pc' = "item" /\ content' = stringify_block_sequence_item(value)
          /\ UNCHANGED raised
  /\ UNCHANGED <<patch_operations, tree, compiled, edits, queue, text, result,
                 pointer_text, pointer, value, parsers, calls>>

\* stringify_block_mapping_pair("a", value)
StringifyPair ==
  /\ pc = "serialize"
  /\ IF stringify_raises(value)
       THEN pc' = "raised" /\ raised' = "IndexError" /\ UNCHANGED content
     ELSE pc' = "pair" /\ content' = stringify_block_mapping_pair(a_key, value)
          /\ UNCHANGED raised
  /\ UNCHANGED <<patch_operations, tree, compiled, edits, queue, text, result,
                 pointer_text, pointer, value, parsers, calls>>

NextSerialize == StringifyItem \/ StringifyPair

SpecSerialize == InitSerialize /\ [][NextSerialize]_vars

MaxSegmentLen == 2
MaxParts == 2

\* Segments of a pointer, "/" and "~" among their characters, and lists of
\* them.
PointerSegments == UNION {[1..n -> PointerAlphabet] : n \in 0..MaxSegmentLen}
PointerPartLists == UNION {[1..n -> PointerSegments] : n \in 0..MaxParts}

\* str(JSONPointer(parts)) parsed again, or JSONPointer.parse(text) printed
\* again.
InitPointerTrip ==
  /\ content = <<>>
  /\ patch_operations = <<>>
  /\ tree = NoNode
  /\ compiled = 0
  /\ edits = <<>>
  /\ queue = <<>>
  /\ text = <<>>
  /\ result = NoResult
  /\ raised = ""
  /\ \/ /\ pc = "str"
        /\ pointer_text = <<>>
        /\ \E parts \in PointerPartLists : pointer = <<"pointer", parts>>
     \/ /\ pc = "pointer"
        /\ pointer_text \in PointerTexts
        /\ pointer = NoResult
  /\ value = JNull
  /\ parsers = NoParsers
  /\ calls = <<>>

\* str(pointer)
StrPointer ==
  /\ pc = "str"
  /\ pointer_text' = JSONPointer_str(pointer[2])
  /\ pc' = "parse_back"
  /\ UNCHANGED <<content, patch_operations, tree, compiled, edits, queue, text,
                 result, raised, pointer, value, parsers, calls>>

\* JSONPointer.parse(str(pointer))
ParseBack ==
  /\ pc = "parse_back"
  /\ IF IsRaised(JSONPointer_parse(pointer_text))
       THEN pc' = "raised" /\ raised' = JSONPointer_parse(pointer_text)[2]
            /\ UNCHANGED result
     ELSE pc' = "parsed_back" /\ result' = JSONPointer_parse(pointer_text)
          /\ UNCHANGED raised
  /\ UNCHANGED <<content, patch_operations, tree, compiled, edits, queue, text,
                 pointer_text, pointer, value, parsers, calls>>

\* str(JSONPointer.parse(text))
PrintPointer ==
  /\ pc = "parsed"
  /\ result' = <<"text", JSONPointer_str(pointer[2])>>
  /\ pc' = "printed"
  /\ UNCHANGED <<content, patch_operations, tree, compiled, edits, queue, text,
                 raised, pointer_text, pointer, value, parsers, calls>>

NextPointerTrip == StrPointer \/ ParseBack \/ ParsePointer \/ PrintPointer

SpecPointerTrip == InitPointerTrip /\ [][NextPointerTrip]_vars

\* ------------------------------------------------------------ properties

Terminal == pc \in {"returned", "raised"}

\* What the call ended with: the text returned or the exception raised.
Outcome == IF pc = "raised" THEN Raised(raised) ELSE result

\* Two outcomes agree when both raise or both return the same text.
SameOutcome(x, y) ==
  IF IsRaised(x) \/ IsRaised(y) THEN IsRaised(x) /\ IsRaised(y) ELSE x = y

IsRange(e) == e.kind \in {"Replace", "Remove"}

RangesDisjoint(list) ==
  \A i, j \in 1..Len(list) :
    (i < j /\ IsRange(list[i]) /\ IsRange(list[j]))
      => ~(list[i].start_byte < list[j].end_byte /\ list[j].start_byte < list[i].end_byte)

\* No Insert offset lies in the range [start, end) of a Replace or a Remove.
InsertsOutside(list) ==
  \A i, j \in 1..Len(list) :
    (list[i].kind = "Insert" /\ IsRange(list[j]))
      => ~(list[j].start_byte <= list[i].start_byte
           /\ list[i].start_byte < list[j].end_byte)

\* As InsertsOutside, a Replace of an empty range counting as an insert at
\* its offset.
InsertionsOutside(list) ==
  \A i, j \in 1..Len(list) :
    (/\ i # j
     /\ list[i].kind = "Insert" \/ (list[i].kind = "Replace"
                                    /\ list[i].start_byte = list[i].end_byte)
     /\ IsRange(list[j]))
      => ~(list[j].start_byte <= list[i].start_byte
           /\ list[i].start_byte < list[j].end_byte)

\* Every edit of list applied at once at its offsets in buffer: at offset i
\* stand the contents inserted or substituted at i, in the order of list,
\* then the byte at i unless a Replace or Remove range covers it.
simultaneous(buffer, list) ==
  LET covered(i) == \E k \in 1..Len(list) :
        IsRange(list[k]) /\ list[k].start_byte <= i /\ i < list[k].end_byte
      RECURSIVE placed(_, _)
      placed(i, k) ==
        IF k > Len(list) THEN <<>>
        ELSE (IF list[k].kind \in {"Insert", "Replace"} /\ list[k].start_byte = i
                THEN list[k].content ELSE <<>>) \o placed(i, k + 1)
      RECURSIVE build(_)
      build(i) ==
        IF i > Len(buffer) THEN <<>>
        ELSE placed(i, 1)
               \o (IF i < Len(buffer) /\ ~covered(i) THEN <<buffer[i + 1]>> ELSE <<>>)
               \o build(i + 1)
  IN build(0)

\* The simultaneous application, for some order of the contents that meet
\* at one offset.
IsSimultaneous(buffer, list, out) ==
  \/ Len(list) = 0 /\ out = buffer
  \/ /\ Len(list) > 0
     /\ \E p \in Permutations(1..Len(list)) :
          out = simultaneous(buffer, [i \in 1..Len(list) |-> list[p[i]]])

\* The operations of a patch applied one call after the other, each to the
\* text the call before it returned.
RECURSIVE apply_in_turn(_, _)
apply_in_turn(source, operations) ==
  LET first == apply_patch(source, <<operations[1]>>)
  IN IF Len(operations) = 0 THEN <<"text", source>>
     ELSE IF IsRaised(first) THEN first
     ELSE apply_in_turn(first[2], Tail(operations))

\* C1: a patch is applied left-to-right, each operation seeing the document
\* as mutated by the operations before it: apply_patch(S, [op1, ..., opn])
\* ends as applying op1 to S, then op2 to that result, and so on.
C1_LeftToRight ==
  Terminal => SameOutcome(Outcome, apply_in_turn(content, patch_operations))

\* An add of /b followed by a replace of /b: the replace does not see /b.
C1_AddThenReplace ==
  /\ content = dumps(RootScalar)
  /\ patch_operations = <<JSONPatchAdd(<<b_key>>, JInt(3)),
                          JSONPatchReplace(<<b_key>>, JInt(3))>>
  /\ pc = "raised"
  /\ ~IsRaised(apply_in_turn(content, patch_operations))

SingleOperation(ops) == Len(patch_operations) = 1 /\ patch_operations[1].op \in ops

\* What the reference JSON Patch makes of the source.
Reference == ref_apply_patch(loads(content), patch_operations)

\* C2: for a canonical block-style source and a single replace, remove or add
\* for which the reference result is defined, apply_patch returns a text
\* that decodes to exactly the reference result.
C2_SingleOperationSemantics ==
  (SingleOperation({"replace", "remove", "add"}) /\ Terminal /\ ~IsRaised(Reference))
    => (pc = "returned" /\ JsonEq(loads(result[2]), Reference))

\* Replacing the integer at /a by the string "1" writes it unquoted.
C2_StringReadsBackAsInteger ==
  /\ content = dumps(RootScalar)
  /\ patch_operations = <<JSONPatchReplace(<<a_key>>, JStr(<<"1">>))>>
  /\ pc = "returned"
  /\ loads(result[2]) = RootScalar

\* C3 as stated: for any buffer and any edits whose ranges are pairwise
\* non-overlapping and whose insert offsets lie inside no replace/remove
\* range, apply_edits returns the buffer with every edit applied at once at
\* its offsets in the original buffer.
C3_SimultaneousAsStated ==
  (pc = "returned" /\ RangesDisjoint(edits) /\ InsertsOutside(edits))
    => IsSimultaneous(content, edits, result[2])

\* C3, amended: the same, where a Replace of an empty range counts as an
\* insert at its offset and so lies inside no other replace/remove range.
C3_Simultaneous ==
  (pc = "returned" /\ RangesDisjoint(edits) /\ InsertionsOutside(edits))
    => IsSimultaneous(content, edits, result[2])

\* An insert and a replace of a range before it, both applied: the insert
\* offset is the one of the original buffer.
C3_InsertAfterReplace ==
  /\ pc = "returned"
  /\ RangesDisjoint(edits) /\ InsertionsOutside(edits)
  /\ \E i, j \in 1..Len(edits) :
       /\ i < j
       /\ edits[i].kind = "Replace" /\ edits[i].start_byte < edits[i].end_byte
       /\ edits[j].kind = "Insert" /\ edits[j].start_byte >= edits[i].end_byte
  /\ Len(result[2]) > Len(content)

\* Whether operation j of the patch raises when compiled against the source.
OperationFails(j) ==
  IsRaised(edit_patch_operation(content, ParseTree(content), patch_operations[j]))

\* C4: if an operation of a patch fails, apply_patch raises; no edit of an
\* earlier operation has been applied to the bytes, no text is returned, and
\* no operation after the first failing one is compiled.
C4_AllOrNothing ==
  /\ pc \in {"parse", "compile", "raised"} =>
       (text = content /\ queue = <<>> /\ result = NoResult)
  /\ pc = "raised" =>
       /\ compiled < Len(patch_operations)
       /\ OperationFails(compiled + 1)
       /\ \A j \in 1..compiled : ~OperationFails(j)
  /\ pc = "returned" => \A j \in 1..Len(patch_operations) : ~OperationFails(j)

\* A patch whose second operation fails after the first one yielded edits.
C4_EditsDiscarded ==
  /\ pc = "raised"
  /\ compiled = 1
  /\ Len(edits) > 0
  /\ text = content

\* C5: the edits emitted for a patch that compiles without error have
\* pairwise non-overlapping ranges, and no Insert offset falls inside the
\* range of a Replace or Remove of the patch.
C5_EditsDisjoint ==
  (patch_operations # <<>> /\ pc \in {"apply", "returned"})
    => (RangesDisjoint(edits) /\ InsertsOutside(edits))

\* Two replaces of the same path emit the same range twice.
C5_SameRangeTwice ==
  /\ content = dumps(RootScalar)
  /\ patch_operations = <<JSONPatchReplace(<<a_key>>, JInt(3)),
                          JSONPatchReplace(<<a_key>>, JStr(<<"1">>))>>
  /\ pc = "returned"
  /\ Len(edits) = 2
  /\ edits[1].start_byte = edits[2].start_byte /\ edits[1].end_byte = edits[2].end_byte

\* The value the reference reads at the `from` of the only operation.
SourceValue == ref_get(loads(content), patch_operations[1].from)

\* C6: move{from, path} reads the value at `from` and emits the edits of
\* remove(from) followed by add(path, value); afterwards the value that was
\* at `from` is at `path` and `from` no longer exists (from # path).
C6_MoveSemantics ==
  LET operation == patch_operations[1]
      removed == edit_remove(content, tree, operation.from)
      added == edit_add(content, tree, operation.path, SourceValue)
  IN (/\ SingleOperation({"move"}) /\ Terminal
      /\ operation.from # operation.path
      /\ ~IsRaised(SourceValue))
       => /\ pc = "returned"
          /\ ~IsRaised(removed) /\ ~IsRaised(added)
          /\ edits = removed[2] \o added[2]
          /\ JsonEq(ref_get(loads(result[2]), operation.path), SourceValue)
          /\ IsRaised(ref_get(loads(result[2]), operation.from))

\* move of /a to /b over {"a": 1, "b": 2}: /a stays and /b keeps its value.
C6_MoveLeavesFrom ==
  /\ content = dumps(RootTwoKeys)
  /\ patch_operations = <<JSONPatchMove(<<a_key>>, <<b_key>>)>>
  /\ pc = "returned"
  /\ JsonEq(loads(result[2]), RootTwoKeys)

\* C7: copy{from, path} emits only an add of the value read at `from` at
\* `path`; the node at `from` is left untouched, and a copy to a path that
\* does not exist yet succeeds whenever `from` resolves.
C7_CopySemantics ==
  LET operation == patch_operations[1]
      added == edit_add(content, tree, operation.path, SourceValue)
  IN (SingleOperation({"copy"}) /\ Terminal /\ ~IsRaised(SourceValue))
       => /\ pc = "returned"
          /\ ~IsRaised(added)
          /\ edits = added[2]
          /\ JsonEq(ref_get(loads(result[2]), operation.from), SourceValue)
          /\ JsonEq(ref_get(loads(result[2]), operation.path), SourceValue)

\* copy of /a to the absent /b raises.
C7_CopyToNewKeyRaises ==
  /\ content = dumps(RootScalar)
  /\ patch_operations = <<JSONPatchCopy(<<a_key>>, <<b_key>>)>>
  /\ pc = "raised"
  /\ raised = "KeyError"

\* The value the reference reads at the path of the first operation.
TargetValue == ref_get(loads(content), patch_operations[1].path)

\* C8: for a path resolvable in the source, apply_patch(S, [test(p, v)])
\* succeeds iff the value read at p equals v; on success no edit is emitted
\* and the returned text is the source.
C8_TestSucceedsIffEqual ==
  (SingleOperation({"test"}) /\ Terminal /\ ~IsRaised(TargetValue))
    => /\ pc = "returned" <=> JsonEq(TargetValue, patch_operations[1].value)
       /\ pc = "returned" => (edits = <<>> /\ result = <<"text", content>>)

\* A test of /a against the value it has raises.
C8_PassingTestRaises ==
  /\ content = dumps(RootScalar)
  /\ patch_operations = <<JSONPatchTest(<<a_key>>, JInt(1))>>
  /\ pc = "raised"
  /\ raised = "TypeError"

\* C9: a test whose value differs or whose path cannot be resolved (missing
\* key, index out of range, non-numeric index, path through a scalar or a
\* flow container) raises TestFailure and no other error.
C9_TestFailureOnly ==
  (/\ Len(patch_operations) > 0 /\ patch_operations[1].op = "test"
   /\ Terminal
   /\ IsRaised(TargetValue) \/ ~JsonEq(TargetValue, patch_operations[1].value))
    => (pc = "raised" /\ raised = TestFailure)

\* A test of an index past the end of a sequence raises IndexError.
C9_IndexErrorEscapes ==
  /\ content = dumps(RootSequence)
  /\ patch_operations = <<JSONPatchTest(<<a_key, <<"5">>>>, JInt(1))>>
  /\ pc = "raised"
  /\ raised = "IndexError"

\* C10: JSONPointer.parse accepts the empty pointer and yields the pointer
\* of no segment; every non-empty text that does not begin with "/" is
\* rejected.
C10_EmptyPointerIsRoot ==
  pc # "pointer" =>
    /\ pointer_text = <<>> => (pc = "parsed" /\ pointer = <<"pointer", <<>>>>)
    /\ (pointer_text # <<>> /\ pointer_text[1] # "/") => pc = "raised"

\* The empty pointer is rejected.
C10_EmptyPointerRejected ==
  pointer_text = <<>> /\ pc = "raised" /\ raised = "ValueError"

\* Whether the text p occurs in the text t.
Occurs(t, p) == \E i \in 1..(Len(t) - Len(p) + 1) : SubSeq(t, i, i + Len(p) - 1) = p

\* The node the path of the single operation names in the source.
Target == get_node_by_path(content, tree, patch_operations[1].path)

\* The operation addresses a block mapping pair whose next sibling is a
\* comment on the pair's row.
HasTrailingComment ==
  /\ ~IsRaised(Target)
  /\ At(tree, Target[2]).type = "block_mapping_pair"
  /\ HasNextSibling(tree, Target[2])
  /\ At(tree, next_sibling(Target[2])).type = "comment"
  /\ row_of(content, tree, next_sibling(Target[2])) = row_of(content, tree, Target[2])

\* Some line of the text returned holds the pair's key with its colon and,
\* after it, the comment.
CommentOnKeyLine ==
  \E i \in 1..Len(splitlines(result[2])) :
    LET line == splitlines(result[2])[i]
        key == patch_operations[1].path[Len(patch_operations[1].path)]
    IN /\ StartsWith(line, key \o <<":">>)
       /\ Occurs(line, <<SP, "#", SP>> \o CommentText)

\* C11: replacing the value of a block mapping pair that has a trailing
\* comment on its row emits one Replace whose range reaches the end of the
\* comment, and returns a text that holds the key and the comment on one
\* line and decodes to the patched value.
C11_ReplaceKeepsComment ==
  (SingleOperation({"replace"}) /\ pc = "returned" /\ HasTrailingComment)
    => /\ Len(edits) = 1
       /\ edits[1].kind = "Replace"
       /\ edits[1].end_byte = At(tree, next_sibling(Target[2])).end
       /\ CommentOnKeyLine
       /\ JsonEq(loads(result[2]), Reference)

\* The comment is kept on the line of the pair, and the string "1" written
\* in place of the integer reads back as the integer.
C11_CommentKeptStringUnquoted ==
  /\ content = insert_inline_comment(dumps(RootScalar), CommentText)
  /\ patch_operations = <<JSONPatchReplace(<<a_key>>, JStr(<<"1">>))>>
  /\ pc = "returned"
  /\ HasTrailingComment
  /\ CommentOnKeyLine
  /\ loads(result[2]) = RootScalar
  /\ ~JsonEq(loads(result[2]), Reference)

\* The single operation addresses a pair of a block mapping or an item of a
\* block sequence.
TargetIsMember ==
  /\ ~IsRaised(Target)
  /\ At(tree, Target[2]).type \in {"block_mapping_pair", "block_sequence_item"}

\* The members of the container of the node addressed, the node included.
TargetMembers == KidsOfType(tree, Parent(Target[2]), {At(tree, Target[2]).type})

\* The edit e leaves every byte of the node at np alone.
Spares(e, np) == e.end_byte <= At(tree, np).start \/ At(tree, np).end <= e.start_byte

C13_RoundTrip ==
  pc \in {"read_back", "raised"} => (pc = "read_back" /\ JsonEq(result[2], value))

\* The string "1" in a list is written plain and read back as the integer 1.
C13_StringItemReadAsInteger ==
  /\ value = JList(<<JStr(<<"1">>)>>)
  /\ content = <<"-", SP, "1", NL>>
  /\ pc = "read_back"
  /\ result[2] = JList(<<JInt(1)>>)

\* The text is a JSON Pointer: empty, or starting with "/".
IsPointerText(t) == Len(t) = 0 \/ t[1] = "/"

\* The segments of a JSON Pointer, the empty pointer having none.
PointerParts(t) == IF Len(t) = 0 THEN <<>> ELSE JSONPointer_parse(t)[2]

\* The object has the member and it is a string holding a JSON Pointer.
HasPointer(object, key) ==
  /\ HasKey(object[2], key)
  /\ IsStr(Lookup(object[2], key))
  /\ IsPointerText(Lookup(object[2], key)[2])

OpOf(object) == Lookup(object[2], <<"o", "p">>)[2]

\* The object names one of the six operations and holds the members that
\* operation needs.
WellFormed(object) ==
  /\ IsMap(object)
  /\ HasKey(object[2], <<"o", "p">>)
  /\ IsStr(Lookup(object[2], <<"o", "p">>))
  /\ OpOf(object) \in OpNames \ {<<"x">>}
  /\ HasPointer(object, <<"p", "a", "t", "h">>)
  /\ OpOf(object) \in {<<"a", "d", "d">>, <<"r", "e", "p", "l", "a", "c", "e">>, <<"t", "e", "s", "t">>}
       => HasKey(object[2], <<"v", "a", "l", "u", "e">>)
  /\ OpOf(object) \in {<<"m", "o", "v", "e">>, <<"c", "o", "p", "y">>}
       => HasPointer(object, <<"f", "r", "o", "m">>)

\* The operation a well-formed object stands for.
OperationOf(object) ==
  LET path == PointerParts(Lookup(object[2], <<"p", "a", "t", "h">>)[2])
      from_ == PointerParts(Lookup(object[2], <<"f", "r", "o", "m">>)[2])
      val == Lookup(object[2], <<"v", "a", "l", "u", "e">>)
  IN CASE OpOf(object) = <<"a", "d", "d">> -> JSONPatchAdd(path, val)
       [] OpOf(object) = <<"r", "e", "m", "o", "v", "e">> -> JSONPatchRemove(path)
       [] OpOf(object) = <<"r", "e", "p", "l", "a", "c", "e">> -> JSONPatchReplace(path, val)
       [] OpOf(object) = <<"m", "o", "v", "e">> -> JSONPatchMove(from_, path)
       [] OpOf(object) = <<"c", "o", "p", "y">> -> JSONPatchCopy(from_, path)
       [] OpOf(object) = <<"t", "e", "s", "t">> -> JSONPatchTest(path, val)

\* C14: from_json raises the structural error, and constructs nothing, for
\* every object whose op is none of the six, that lacks a member its op
\* needs or whose path is no string; for every well-formed object it
\* returns the operation of that op with its pointers parsed.
C14_FromJson ==
  pc \in {"constructed", "raised"}
    => IF WellFormed(value)
         THEN pc = "constructed" /\ result = <<"operation", OperationOf(value)>>
       ELSE pc = "raised" /\ raised = "ValueError" /\ result = NoResult

\* A remove of the root, {"op": "remove", "path": ""}, is rejected.
C14_RootPathRejected ==
  /\ value = JMap(<< <<<<"o", "p">>, JStr(<<"r", "e", "m", "o", "v", "e">>)>>,
                     <<<<"p", "a", "t", "h">>, JStr(<<>>)>> >>)
  /\ WellFormed(value)
  /\ pc = "raised"
  /\ raised = "ValueError"

\* The invocation i has ended, with a text or an exception.
CallEnded(i) == calls[i].pc \in {"returned", "raised"}

C16_OperationEditsDisjoint ==
  (Len(patch_operations) = 1 /\ pc \in {"apply", "returned"})
    => (RangesDisjoint(edits) /\ InsertsOutside(edits))

\* A move to the first index of a sequence: the Insert of the add lies
\* inside the range of the Remove, which is the one of the item at `path`.
C16_InsertInsideRemove ==
  /\ content = dumps(RootSequence)
  /\ patch_operations = <<JSONPatchMove(<<a_key, <<"1">>>>, <<a_key, <<"0">>>>)>>
  /\ pc = "returned"
  /\ edits = <<Remove(2, 6), Insert(3, <<"-", SP, "1", NL>>)>>

\* What a VALUE names: the text after its prefix, typed by the prefix
\* (TRUE and FALSE for `bool:true` and `bool:false`), or the JSON value of
\* a bare text.
ValueOfPayload(payload) ==
  IF payload = <<"t", "r", "u", "e">> THEN JBool(TRUE)
  ELSE IF payload = <<"f", "a", "l", "s", "e">> THEN JBool(FALSE)
  ELSE IF payload = <<"n", "u", "l", "l">> THEN JNull
  ELSE IF payload = <<DQ, "x", DQ>> THEN JStr(<<"x">>)
  ELSE IF payload = <<"1">> THEN JInt(1)
  ELSE IF payload = <<"-", "1">> THEN JInt(0 - 1)
  ELSE IF payload = <<"0">> THEN JInt(0)
  ELSE IF payload = <<"1", ".", "5">> THEN JFloat(15)
  ELSE Raised("no value")

PayloadOf(prefix) == SubSeq(content, Len(prefix) + 2, Len(content))

\* C17: a VALUE `string:`, `int:`, `float:`, `bool:` or `json:` is parsed as
\* that type from the text after the prefix: `string:t` yields the string t,
\* `int:1` the integer 1, `float:1.5` the float 1.5, `bool:true` true and
\* `bool:false` false, `json:t` the JSON value of t; a VALUE with no such
\* prefix yields its JSON value.
C17_ParseValue ==
  pc = "parsed" =>
    IF StartsWith(content, PrefixString \o <<":">>)
      THEN value = JStr(PayloadOf(PrefixString))
    ELSE IF StartsWith(content, PrefixInt \o <<":">>)
      THEN value[1] = "int" /\ value = ValueOfPayload(PayloadOf(PrefixInt))
    ELSE IF StartsWith(content, PrefixFloat \o <<":">>)
      THEN value[1] = "float"
           /\ (PayloadOf(PrefixFloat) = <<"1", ".", "5">> => value = JFloat(15))
    ELSE IF StartsWith(content, PrefixBool \o <<":">>)
      THEN value[1] = "bool"
           /\ (PayloadOf(PrefixBool) = <<"t", "r", "u", "e">> => value = JBool(TRUE))
           /\ (PayloadOf(PrefixBool) = <<"f", "a", "l", "s", "e">> => value = JBool(FALSE))
    ELSE IF StartsWith(content, PrefixJson \o <<":">>)
      THEN value = ValueOfPayload(PayloadOf(PrefixJson))
    ELSE value = ValueOfPayload(content)

\* `bool:false` has been parsed, and the value is true.
C17_BoolFalseParsedTrue ==
  /\ pc = "parsed"
  /\ content = PrefixBool \o <<":">> \o <<"f", "a", "l", "s", "e">>
  /\ value = JBool(TRUE)

\* The sequence the path of a resolution ends in, and the segment resolved
\* against it.
ResolvedSequence == ref_get(loads(content), SubSeq(pointer, 1, Len(pointer) - 1))
ResolvedSegment == pointer[Len(pointer)]

\* C18: a segment resolved against a block sequence of n items returns the
\* i-th item iff the segment is a non-negative decimal integer i < n; every
\* other segment fails and resolves to no item.
C18_IndexInRange ==
  pc \in {"returned", "raised"} =>
    IF IsNatText(ResolvedSegment) /\ NatValue(ResolvedSegment) < Len(ResolvedSequence[2])
      THEN /\ pc = "returned"
           /\ At(tree, result[2]).type = "block_sequence_item"
           /\ parse_node(content, At(tree, result[2]))
                = ResolvedSequence[2][NatValue(ResolvedSegment) + 1]
    ELSE pc = "raised"

\* The segment -1 has been resolved against a sequence of two items or more,
\* and the last item was returned.
C18_MinusOneIsLastItem ==
  /\ pc = "returned"
  /\ ResolvedSegment = <<"-", "1">>
  /\ Len(ResolvedSequence[2]) > 1
  /\ parse_node(content, At(tree, result[2])) = JInt(Len(ResolvedSequence[2]))

\* The path of the sequence an add goes into, its items before the add, and
\* the segment that says where.
AddParent == SubSeq(patch_operations[1].path, 1, Len(patch_operations[1].path) - 1)
AddItems == ref_get(loads(content), AddParent)[2]
AddSegment == patch_operations[1].path[Len(patch_operations[1].path)]

\* The index the segment names: n for `-`, i for the decimal i, and nothing
\* (-1) for any other segment.
AddIndex ==
  IF AddSegment = <<"-">> THEN Len(AddItems)
  ELSE IF IsNatText(AddSegment) THEN NatValue(AddSegment)
  ELSE 0 - 1

\* The item at index i of the sequence an add goes into, and the sequence.
AddSibling(i) == get_node_by_path(content, tree, AddParent \o <<NatText(i)>>)[2]
AddSequence == Parent(AddSibling(0))

\* C19: an add into a block sequence of n items with segment i (`-` is n)
\* inserts at the end of the sequence for i = n and before the item at index
\* i for 0 <= i < n; the result has n+1 items, the new value at index i and
\* the old items in their order.  A segment outside 0..n is an error and
\* nothing is inserted.
C19_AddIntoBlockSequence ==
  Terminal =>
    IF 0 <= AddIndex /\ AddIndex <= Len(AddItems)
      THEN /\ pc = "returned"
           /\ Len(edits) = 1
           /\ edits[1].kind = "Insert"
           /\ edits[1].start_byte
                = (IF AddIndex = Len(AddItems) THEN At(tree, AddSequence).end
                   ELSE At(tree, AddSibling(AddIndex)).start)
           /\ ref_get(loads(result[2]), AddParent)
                = JList(SubSeq(AddItems, 1, AddIndex) \o <<patch_operations[1].value>>
                          \o SubSeq(AddItems, AddIndex + 1, Len(AddItems)))
    ELSE pc = "raised"

\* 9 is added at -1 to the sequence 1, 2: it is inserted before the last item.
C19_AddedBeforeLastItem ==
  /\ content = dumps(CountTo(2))
  /\ patch_operations = <<JSONPatchAdd(<<IntText(0 - 1)>>, JInt(9))>>
  /\ pc = "returned"
  /\ loads(result[2]) = JList(<<JInt(1), JInt(9), JInt(2)>>)

\* The offset of the "[" of the flow sequence of the source, and the offset
\* where its item at index k ends: an item is one digit, and ", " parts two.
FlowOpen == IndexFrom(content, "[", 1) - 1
FlowItemEnd(k) == FlowOpen + 3 * k + 2

\* C20: an add into a flow sequence at index i inserts the value just after
\* the "[" with no prefix for i = 0, and inserts ", " and the value right
\* after the item at index i - 1 for 0 < i <= n, so that the new value is at
\* index i.
C20_AddIntoFlowSequence ==
  (Terminal /\ IsNatText(AddSegment) /\ AddIndex <= Len(AddItems)) =>
    /\ pc = "returned"
    /\ IF AddIndex = 0
         THEN edits = <<Insert(FlowOpen + 1, stringify_flow(patch_operations[1].value))>>
       ELSE /\ edits = <<Insert(FlowItemEnd(AddIndex - 1),
                                <<",", SP>> \o stringify_flow(patch_operations[1].value))>>
            /\ ref_get(loads(result[2]), AddParent)
                 = JList(SubSeq(AddItems, 1, AddIndex) \o <<patch_operations[1].value>>
                           \o SubSeq(AddItems, AddIndex + 1, Len(AddItems)))

\* 9 is added at index 1 to the flow sequence [1] under the key a, and the
\* add raises IndexError.
C20_AddAtEndRaises ==
  /\ content = <<"a", ":", SP>> \o FlowText(1) \o <<NL>>
  /\ patch_operations = <<JSONPatchAdd(<<a_key, <<"1">>>>, JInt(9))>>
  /\ pc = "raised"
  /\ raised = "IndexError"

\* What follows "- " or "a:" in the text of an item or a pair.
Serialized == SubSeq(content, 3, Len(content))

\* C21: stringify_block_sequence_item and stringify_block_mapping_pair return
\* a result for every value, by the first case that fits: a list or mapping;
\* a string ending in a newline ("|"); a string holding a newline ("|-"); a
\* string holding a double quote (its JSON lexeme); any other string, the
\* empty one included (as it is); null (nothing after "- " or "a:"); any
\* other scalar (its JSON lexeme).
C21_SerializerCases ==
  pc \in {"item", "pair", "raised"} =>
    /\ pc # "raised"
    /\ SubSeq(content, 1, 2) = (IF pc = "item" THEN <<"-", SP>> ELSE <<"a", ":">>)
    /\ IF IsList(value) \/ IsMap(value)
         THEN pc = "pair" => (Len(value[2]) > 0 => Serialized[1] = NL)
       ELSE IF IsStr(value) /\ Len(value[2]) > 0 /\ value[2][Len(value[2])] = NL
         THEN StartsWith(content, (IF pc = "item" THEN <<"-">> ELSE <<"a", ":">>)
                                    \o <<SP, "|", NL, SP, SP>>)
       ELSE IF IsStr(value) /\ \E i \in 1..Len(value[2]) : value[2][i] = NL
         THEN StartsWith(content, (IF pc = "item" THEN <<"-">> ELSE <<"a", ":">>)
                                    \o <<SP, "|", "-", NL, SP, SP>>)
       ELSE IF IsStr(value) /\ \E i \in 1..Len(value[2]) : value[2][i] = DQ
         THEN content = (IF pc = "item" THEN <<"-">> ELSE <<"a", ":">>)
                          \o <<SP>> \o json_dumps(value)
       ELSE IF IsStr(value)
         THEN content = (IF pc = "item" THEN <<"-">> ELSE <<"a", ":">>)
                          \o <<SP>> \o value[2]
       ELSE IF value = JNull
         THEN content = (IF pc = "item" THEN <<"-", SP>> ELSE <<"a", ":">>)
       ELSE content = (IF pc = "item" THEN <<"-">> ELSE <<"a", ":">>)
                        \o <<SP>> \o json_dumps(value)

\* The serializer was called on the empty string and raised IndexError.
C21_EmptyStringRaises ==
  /\ value = JStr(<<>>)
  /\ pc = "raised"
  /\ raised = "IndexError"

\* The lines of the text of a pair after its first line, and the lines of
\* the serialized value.
PairLines == Tail(splitlines(content))
ValueLines == splitlines(stringify_block(value))

\* Every line after the first is a line of the serialized value behind two
\* spaces.
IndentedByOneStep ==
  /\ Len(PairLines) = Len(ValueLines)
  /\ \A i \in 1..Len(PairLines) : PairLines[i] = <<SP, SP>> \o ValueLines[i]

\* C22 as stated: stringify_block_mapping_pair(k, v) with a list or mapping v
\* returns `k:` on a line of its own and then every line of the serialized
\* container indented by two spaces.
C22_ContainerIndented ==
  (pc = "pair" /\ (IsList(value) \/ IsMap(value))) =>
    /\ splitlines(content)[1] = <<"a", ":">>
    /\ IndentedByOneStep

\* C22: the text stringify_block_mapping_pair(k, v) returns for a list or
\* mapping v has `k:` on a line of its own; the lines of a serialized
\* mapping follow indented by two spaces, the lines of a serialized list
\* follow as they are, at the indentation of the key.
C22_MappingIndentedListNot ==
  (pc = "pair" /\ (IsList(value) \/ IsMap(value))) =>
    /\ splitlines(content)[1] = <<"a", ":">>
    /\ IF IsMap(value) THEN IndentedByOneStep ELSE PairLines = ValueLines

\* A pair has been written for a list of two items, and its items stand at
\* the indentation of the key.
C22_ListAtKeyIndentation ==
  /\ pc = "pair"
  /\ value = JList(<<JInt(0), JInt(3)>>)
  /\ content = <<"a", ":", NL, "-", SP, "0", NL, "-", SP, "3">>

\* The edits of list that start at offset, in the order of list.
StartingAt(list, offset) ==
  LET RECURSIVE keep(_)
      keep(rest) ==
        IF Len(rest) = 0 THEN <<>>
        ELSE (IF rest[1].start_byte = offset THEN <<rest[1]>> ELSE <<>>) \o keep(Tail(rest))
  IN keep(list)

\* C23: apply_edits applies the edits that share a start offset in the order
\* they were emitted in; of two Inserts at one offset the content emitted
\* later stands before the content emitted earlier in the text returned, so
\* two adds that append to one block container come out in reverse patch
\* order.
C23_TieOrder ==
  /\ (pc = "apply" /\ Len(queue) = Len(edits)) =>
       \A k \in 1..Len(edits) :
         StartingAt(queue, edits[k].start_byte) = StartingAt(edits, edits[k].start_byte)
  /\ (/\ pc = "returned"
      /\ Len(edits) = 2
      /\ edits[1].kind = "Insert" /\ edits[2].kind = "Insert"
      /\ edits[1].start_byte = edits[2].start_byte) =>
       result[2] = Slice(content, 0, edits[1].start_byte)
                     \o edits[2].content \o edits[1].content
                     \o Slice(content, edits[1].start_byte, Len(content))

\* 3 and then "1" have been appended to the sequence under a, and the text
\* returned has the item 1 before the item 3.
C23_AppendedInReverse ==
  /\ content = dumps(RootSequence)
  /\ patch_operations = <<JSONPatchAdd(<<a_key, <<"-">>>>, JInt(3)),
                          JSONPatchAdd(<<a_key, <<"-">>>>, JStr(<<"1">>))>>
  /\ pc = "returned"
  /\ edits[1].start_byte = edits[2].start_byte
  /\ result[2] = content \o <<"-", SP, "1", NL, "-", SP, "3", NL>>

\* Every "~" of t is the start of the escape ~0 or ~1.
OnlyEscapes(t) ==
  \A i \in 1..Len(t) : t[i] = "~" => (i < Len(t) /\ t[i + 1] \in {"0", "1"})

\* C24: for every list of segments p, the empty list and segments holding
\* "/" or "~" included, JSONPointer.parse(str(JSONPointer(p))) has the parts
\* p; for every text s that starts with "/" and has no "~" but in ~0 and ~1,
\* str(JSONPointer.parse(s)) is s; and ~01 is read as the segment ~1.
C24_PointerRoundTrip ==
  \* Only the parse of a given text raises, never the parse of a printed one.
  /\ pc = "raised" => pointer = NoResult
  /\ pc = "parsed_back" => result = pointer
  /\ (pc = "printed" /\ OnlyEscapes(pointer_text)) => result = <<"text", pointer_text>>
  /\ (pc = "parsed_back" /\ pointer_text = <<"/", "~", "0", "1">>)
       => result = <<"pointer", << <<"~", "1">> >> >>

\* The pointer of no segments was printed and parsed again, and came back as
\* the pointer of one empty segment.
C24_EmptyListComesBackAsEmptySegment ==
  /\ pc = "parsed_back"
  /\ pointer = <<"pointer", <<>>>>
  /\ pointer_text = <<"/">>
  /\ result = <<"pointer", << <<>> >> >>

====
